---- MODULE Spec2Model ----
(***************************************************************************)
(* Model of the merkle-patricia-trie-js guest: the host key/value store,   *)
(* the reference-counted content-addressed adapter ExternalDB, the         *)
(* dispatch entry point `call` and the trie it drives.                     *)
(***************************************************************************)
EXTENDS Integers, Sequences, FiniteSets, TLC

VARIABLES
    storage,    \* the host store: a function from host keys to stored bytes
    INNER,      \* bump_allocator.rs static INNER: NoArena or [next, upper_limit]
    lastCall,   \* record of the last operation: arguments, result, host calls
    kv,         \* history: the key/value map the completed calls describe
    committed,  \* history: host store at the end of the last completed call
    refs,       \* history: per hash, completed inserts minus removes and the
                \* content given when the count left 0
    clean,      \* history: TRUE while no operation has aborted
    heap,       \* history: how the live arena came to be and the ranges the
                \* allocator-level operations were given in it
    index       \* a Branch Index (children.rs Children), an iterator over it
                \* and the history of the pushes and of the pairs yielded

vars == <<storage, INNER, lastCall, kv, committed, refs, clean, heap, index>>

----------------------------------------------------------------------------
(* Bounds *)

\* largest reference count the store-level operations drive a hash to
MaxCount == 2
\* host calls of one dispatch call that may be chosen to return an error status
MaxFail == 6
\* host calls of one store operation that may be chosen to return an error status
MaxStoreFail == 3
\* ranges handed out in one arena by the allocator-level operations
MaxAllocs == 3
\* pages of linear memory the host grants to one instance
MaxPages == 4

\* ranges handed back to the allocator between two resets
MaxFrees == 1

----------------------------------------------------------------------------
(* Bytes, contents and hashes *)

None == [kind |-> "None"]

\* a plain byte string held in the store (a value, or any caller-supplied data)
Raw(bytes) == [kind |-> "Raw", bytes |-> bytes]

\* the encoding of the empty trie node: the single byte 0
NullNodeData == Raw(<<0>>)

\* Blake2Hasher::hash: modelled as collision free, a digest is identified by
\* the content it was computed from
Blake2(content) == [digest |-> content]

HASHED_NULL_NODE == Blake2(NullNodeData)

\* a status other than 0 (success) and 3 (key not found)
HostError == 1
KeyNotFound == 3
\* another status that is neither success nor key not found
OtherError == 2

\* i32::to_ne_bytes / i32::from_ne_bytes on wasm32 (little endian, two's
\* complement)
I32_MAX == 2147483647
I32_MIN == -I32_MAX - 1

i32_to_ne_bytes(n) ==
    LET m == IF n < 0 THEN n - I32_MIN ELSE n
    IN  <<m % 256, (m \div 256) % 256, (m \div 65536) % 256,
          (m \div 16777216) + (IF n < 0 THEN 128 ELSE 0)>>

i32_from_ne_bytes(b) ==
    LET m == b[1] + 256 * b[2] + 65536 * b[3] + 16777216 * (b[4] % 128)
    IN  IF b[4] >= 128 THEN m + I32_MIN ELSE m

\* counter + 1 and counter - 1 on i32 (wrapping, as in a release build)
i32_inc(n) == IF n = I32_MAX THEN I32_MIN ELSE n + 1
i32_dec(n) == IF n = I32_MIN THEN I32_MAX ELSE n - 1

----------------------------------------------------------------------------
(* Host keys *)

\* EMPTY_PTR: the zero-length key, the root-hash slot
EMPTY_PTR == <<>>

\* key.as_bytes(): the 32 bytes of the hash
ValueKey(hash) == <<hash>>

\* counter_key: the 32 bytes of the hash followed by the marker byte 0xff
CounterKey(hash) == <<hash, 255>>

----------------------------------------------------------------------------
(* Host calls.  A world w is the host store during one invocation together  *)
(* with the host calls issued so far: w.ok is FALSE once the invocation has *)
(* aborted, w.fail is the index of the host call the host answers with an   *)
(* error status (0: none),                                                  *)
(* w.status is the status that host call is answered with.                  *)

WorldAnswering(st, fail, status) ==
    [st |-> st, log |-> <<>>, ok |-> TRUE, fail |-> fail, status |-> status]

World(st, fail) == WorldAnswering(st, fail, HostError)

Abort(w) == [w EXCEPT !.ok = FALSE]

Logged(w, op, key) == [w EXCEPT !.log = Append(@, [op |-> op, key |-> key])]

HostFnImpl_set_storage(w, key, value) ==
    IF ~w.ok THEN [w |-> w, code |-> 0]
    ELSE IF w.fail = Len(w.log) + 1
         THEN [w |-> Logged(w, "set_storage", key), code |-> w.status]
    ELSE [w |-> [Logged(w, "set_storage", key) EXCEPT
                   !.st = [k \in (DOMAIN w.st) \cup {key} |->
                             IF k = key THEN value ELSE w.st[k]]],
          code |-> 0]

HostFnImpl_get_storage(w, key) ==
    IF ~w.ok THEN [w |-> w, code |-> HostError, out |-> None]
    ELSE IF w.fail = Len(w.log) + 1
         THEN [w |-> Logged(w, "get_storage", key), code |-> w.status, out |-> None]
    ELSE IF key \notin DOMAIN w.st
         THEN [w |-> Logged(w, "get_storage", key), code |-> KeyNotFound, out |-> None]
    ELSE [w |-> Logged(w, "get_storage", key), code |-> 0, out |-> w.st[key]]

HostFnImpl_clear_storage(w, key) ==
    IF ~w.ok THEN [w |-> w, code |-> 0]
    ELSE IF w.fail = Len(w.log) + 1
         THEN [w |-> Logged(w, "clear_storage", key), code |-> w.status]
    ELSE [w |-> [Logged(w, "clear_storage", key) EXCEPT
                   !.st = [k \in (DOMAIN w.st) \ {key} |-> w.st[k]]],
          code |-> 0]

\* the host call chosen to fail was issued (a choice beyond the calls of the
\* invocation is the same behaviour as no failure)
FailureHit(w) == w.fail # 0 => Len(w.log) >= w.fail

----------------------------------------------------------------------------
(* Length in bytes of a stored content: a plain byte string, or a trie node *)
(* in the encoding of the consumed node codec                               *)

HASH_LENGTH == 32

\* SCALE compact length prefix
CompactLen(n) == IF n < 64 THEN 1 ELSE IF n < 16384 THEN 2 ELSE 4

ValueLen(v) ==
    IF v = None THEN 0
    ELSE IF v.t = "Inline" THEN CompactLen(Len(v.bytes)) + Len(v.bytes)
    ELSE HASH_LENGTH

\* length in bytes of a stored content
RECURSIVE EncLen(_)
RECURSIVE ChildrenLen(_, _)
ChildrenLen(children, S) ==
    IF S = {} THEN 0
    ELSE LET i == CHOOSE x \in S : TRUE
             c == children[i]
         IN  (IF c.t = "Hash" THEN 1 + HASH_LENGTH ELSE 1 + EncLen(c.node))
             + ChildrenLen(children, S \ {i})

EncLen(enc) ==
    IF enc.kind = "Raw" THEN Len(enc.bytes)
    ELSE IF enc.kind = "Leaf"
         THEN 1 + ((Len(enc.partial) + 1) \div 2) + ValueLen(enc.value)
    ELSE IF enc.kind = "Extension"
         THEN 1 + ((Len(enc.partial) + 1) \div 2)
              + ChildrenLen([i \in {0} |-> enc.child], {0})
    ELSE IF enc.kind = "Branch"
         THEN 1 + 2 + ValueLen(enc.value)
              + ChildrenLen(enc.children, DOMAIN enc.children)
    ELSE 1 + ((Len(enc.partial) + 1) \div 2) + 2 + ValueLen(enc.value)
         + ChildrenLen(enc.children, DOMAIN enc.children)

----------------------------------------------------------------------------
(* ExternalDB *)

\* if let Some(error) = HostFnImpl::...(..) { abort!(..) }
AbortOnError(r) == IF r.code # 0 THEN Abort(r.w) ELSE r.w

\* get_storage_counter reading any error status as an absent counter
Mutant_get_storage_counter_any_error_absent(w, key) ==
    LET Read(r) ==
          IF ~w.ok THEN [w |-> w, ret |-> 0]
          ELSE IF r.code # 0 THEN [w |-> r.w, ret |-> 0]
          ELSE IF Len(r.out) = 0 THEN [w |-> r.w, ret |-> 0]
          ELSE IF Len(r.out) # 4 THEN [w |-> Abort(r.w), ret |-> 0]
          ELSE [w |-> r.w, ret |-> i32_from_ne_bytes(r.out)]
    IN  Read(HostFnImpl_get_storage(w, CounterKey(key)))

get_storage_counter(w, key) ==
    LET Read(r) ==
          IF ~w.ok THEN [w |-> w, ret |-> 0]
          ELSE IF r.code # 0
               THEN IF r.code = KeyNotFound
                    THEN [w |-> r.w, ret |-> 0]
                    ELSE [w |-> Abort(r.w), ret |-> 0]
          ELSE IF Len(r.out) = 0 THEN [w |-> r.w, ret |-> 0]
          ELSE IF Len(r.out) # 4 THEN [w |-> Abort(r.w), ret |-> 0]
          ELSE [w |-> r.w, ret |-> i32_from_ne_bytes(r.out)]
    IN  Read(HostFnImpl_get_storage(w, CounterKey(key)))

\* set_storage_counter writing a zero count instead of clearing the entry
Mutant_set_storage_counter_writes_zero(w, key, counter) ==
    AbortOnError(HostFnImpl_set_storage(w, CounterKey(key), i32_to_ne_bytes(counter)))

set_storage_counter(w, key, counter) ==
    IF counter = 0
    THEN AbortOnError(HostFnImpl_clear_storage(w, CounterKey(key)))
    ELSE AbortOnError(HostFnImpl_set_storage(w, CounterKey(key), i32_to_ne_bytes(counter)))

\* internal_emplace setting the count to 1 whatever it was
Mutant_internal_emplace_no_increment(w, key, value) ==
    LET Counted(c) ==
          set_storage_counter(
              IF c.ret = 0
              THEN AbortOnError(HostFnImpl_set_storage(c.w, ValueKey(key), value))
              ELSE c.w,
              key, 1)
    IN  Counted(get_storage_counter(w, key))

\* internal_emplace writing the value on every call
Mutant_internal_emplace_rewrites(w, key, value) ==
    LET Counted(c) ==
          set_storage_counter(
              AbortOnError(HostFnImpl_set_storage(c.w, ValueKey(key), value)),
              key, i32_inc(c.ret))
    IN  Counted(get_storage_counter(w, key))

internal_emplace(w, key, value) ==
    LET Counted(c) ==
          LET counter == i32_inc(c.ret)
          IN  set_storage_counter(
                  IF counter = 1
                  THEN AbortOnError(HostFnImpl_set_storage(c.w, ValueKey(key), value))
                  ELSE c.w,
                  key, counter)
    IN  Counted(get_storage_counter(w, key))

set_root_hash(w, hash) == AbortOnError(HostFnImpl_set_storage(w, EMPTY_PTR, hash))

\* get_root_hash returning the empty-trie constant also when the slot is found
Mutant_get_root_hash_forgets(w) ==
    LET Read(r) ==
          IF ~w.ok THEN [w |-> w, ret |-> HASHED_NULL_NODE]
          ELSE IF r.code = 0 THEN [w |-> r.w, ret |-> HASHED_NULL_NODE]
          ELSE IF r.code = KeyNotFound
               THEN [w |-> set_root_hash(r.w, HASHED_NULL_NODE), ret |-> HASHED_NULL_NODE]
          ELSE [w |-> Abort(r.w), ret |-> HASHED_NULL_NODE]
    IN  Read(HostFnImpl_get_storage(w, EMPTY_PTR))

\* get_root_hash persisting the hash again when the slot is found
Mutant_get_root_hash_repersists(w) ==
    LET Read(r) ==
          IF ~w.ok THEN [w |-> w, ret |-> HASHED_NULL_NODE]
          ELSE IF r.code = 0 THEN [w |-> set_root_hash(r.w, r.out), ret |-> r.out]
          ELSE IF r.code = KeyNotFound
               THEN [w |-> set_root_hash(r.w, HASHED_NULL_NODE), ret |-> HASHED_NULL_NODE]
          ELSE [w |-> Abort(r.w), ret |-> HASHED_NULL_NODE]
    IN  Read(HostFnImpl_get_storage(w, EMPTY_PTR))

\* the root slot only ever holds what set_root_hash wrote: 32 bytes
get_root_hash(w) ==
    LET Read(r) ==
          IF ~w.ok THEN [w |-> w, ret |-> HASHED_NULL_NODE]
          ELSE IF r.code = 0 THEN [w |-> r.w, ret |-> r.out]
          ELSE IF r.code = KeyNotFound
               THEN [w |-> set_root_hash(r.w, HASHED_NULL_NODE), ret |-> HASHED_NULL_NODE]
          ELSE [w |-> Abort(r.w), ret |-> HASHED_NULL_NODE]
    IN  Read(HostFnImpl_get_storage(w, EMPTY_PTR))

(* impl HashDB for ExternalDB *)

MAX_VALUE_SIZE == 4096

\* a stored value that fills the MAX_VALUE_SIZE buffer, or that the host
\* cannot fit in it, leaves a length of at least MAX_VALUE_SIZE or makes the
\* slicing of the buffer panic: the invocation aborts
ExternalDB_get(w, key) ==
    IF key = HASHED_NULL_NODE THEN [w |-> w, ret |-> NullNodeData]
    ELSE LET Read(r) ==
               IF ~w.ok THEN [w |-> w, ret |-> None]
               ELSE IF r.code # 0
                    THEN IF r.code = KeyNotFound
                         THEN [w |-> r.w, ret |-> None]
                         ELSE [w |-> Abort(r.w), ret |-> None]
               ELSE IF EncLen(r.out) >= MAX_VALUE_SIZE
                    THEN [w |-> Abort(r.w), ret |-> None]
               ELSE [w |-> r.w, ret |-> r.out]
         IN  Read(HostFnImpl_get_storage(w, ValueKey(key)))

ExternalDB_contains(w, key) ==
    IF key = HASHED_NULL_NODE THEN [w |-> w, ret |-> TRUE]
    ELSE LET Counted(c) == [w |-> c.w, ret |-> c.ret > 0]
         IN  Counted(get_storage_counter(w, key))

ExternalDB_insert(w, value) ==
    IF value = Raw(<<>>) \/ value = NullNodeData
    THEN [w |-> w, ret |-> HASHED_NULL_NODE]
    ELSE [w |-> internal_emplace(w, Blake2(value), value), ret |-> Blake2(value)]

\* emplace without the special case of the empty-trie hash
Mutant_emplace_null_hash(w, key, value) ==
    IF value = Raw(<<>>) THEN w ELSE internal_emplace(w, key, value)

ExternalDB_emplace(w, key, value) ==
    IF value = Raw(<<>>) \/ key = HASHED_NULL_NODE
    THEN w
    ELSE internal_emplace(w, key, value)

\* remove clearing the value whenever the hash is counted
Mutant_remove_any_count(w, key) ==
    IF key = HASHED_NULL_NODE THEN w
    ELSE LET Counted(c) ==
               LET counter == c.ret
                   w1 == IF counter >= 1
                         THEN AbortOnError(HostFnImpl_clear_storage(c.w, ValueKey(key)))
                         ELSE c.w
               IN  IF counter > 0
                   THEN set_storage_counter(w1, key, i32_dec(counter))
                   ELSE w1
         IN  Counted(get_storage_counter(w, key))

\* remove decrementing the count of an absent hash
Mutant_remove_unguarded(w, key) ==
    IF key = HASHED_NULL_NODE THEN w
    ELSE LET Counted(c) ==
               LET counter == c.ret
                   w1 == IF counter = 1
                         THEN AbortOnError(HostFnImpl_clear_storage(c.w, ValueKey(key)))
                         ELSE c.w
               IN  set_storage_counter(w1, key, i32_dec(counter))
         IN  Counted(get_storage_counter(w, key))

ExternalDB_remove(w, key) ==
    IF key = HASHED_NULL_NODE THEN w
    ELSE LET Counted(c) ==
               LET counter == c.ret
                   w1 == IF counter = 1
                         THEN AbortOnError(HostFnImpl_clear_storage(c.w, ValueKey(key)))
                         ELSE c.w
               IN  IF counter > 0
                   THEN set_storage_counter(w1, key, i32_dec(counter))
                   ELSE w1
         IN  Counted(get_storage_counter(w, key))

----------------------------------------------------------------------------
(* The consumed trie (sp_trie LayoutV1 over trie_db::TrieDBMut): nibbled    *)
(* Patricia trie whose nodes are kept in the node database by hash.  A      *)
(* stored node is Raw(<<0>>) (Empty), a Leaf or a NibbledBranch; a child is *)
(* embedded (Inline) when its encoding is shorter than a hash, a value is   *)
(* kept in a node of its own when it is at least MAX_INLINE_VALUE long.     *)

MAX_INLINE_VALUE == 33

Nibble == 0 .. 15

RECURSIVE Nibbles(_)
Nibbles(bytes) ==
    IF bytes = <<>> THEN <<>>
    ELSE <<Head(bytes) \div 16, Head(bytes) % 16>> \o Nibbles(Tail(bytes))

Min(a, b) == IF a < b THEN a ELSE b

\* NibbleSlice::common_prefix
common_prefix(a, b) ==
    LET n == Min(Len(a), Len(b))
        D == {i \in 1 .. n : a[i] # b[i]}
    IN  IF D = {} THEN n ELSE (CHOOSE i \in D : \A j \in D : i <= j) - 1

Mid(s, from) == SubSeq(s, from, Len(s))

\* ascending sequence of the elements of a set of nibbles
RECURSIVE Ascending(_)
Ascending(S) ==
    IF S = {} THEN <<>>
    ELSE LET m == CHOOSE x \in S : \A y \in S : x <= y
         IN  <<m>> \o Ascending(S \ {m})

NoChildren == [i \in {} |-> None]

Leaf(partial, value) == [kind |-> "Leaf", partial |-> partial, value |-> value]

NibbledBranch(partial, children, value) ==
    [kind |-> "NibbledBranch", partial |-> partial, children |-> children, value |-> value]

Empty == [kind |-> "Empty"]

HashHandle(hash) == [t |-> "Hash", hash |-> hash]
NewHandle(node) == [t |-> "New", node |-> node]
InlineHandle(node) == [t |-> "Inline", node |-> node]

InlineValue(bytes) == [t |-> "Inline", bytes |-> bytes]
NodeValue(hash) == [t |-> "Node", hash |-> hash]
NewNodeValue(bytes) == [t |-> "NewNode", bytes |-> bytes]

\* Value::new
Value_new(bytes) ==
    IF Len(bytes) >= MAX_INLINE_VALUE THEN NewNodeValue(bytes) ELSE InlineValue(bytes)

\* NodeCodec::decode_plan succeeds on the content
Decodable(enc) == enc.kind \in {"Leaf", "NibbledBranch"} \/ enc = NullNodeData

\* Node::from_encoded: embedded children become in-memory nodes
RECURSIVE Node_from_encoded(_)
Node_from_encoded(enc) ==
    IF enc = NullNodeData THEN Empty
    ELSE IF enc.kind = "Leaf" THEN enc
    ELSE [enc EXCEPT !.children =
            [i \in DOMAIN enc.children |->
               IF enc.children[i].t = "Hash" THEN enc.children[i]
               ELSE NewHandle(Node_from_encoded(enc.children[i].node))]]

(* Lookup::look_up: ret is None or Raw(bytes) *)

load_value(w, v) ==
    IF v = None THEN [w |-> w, ret |-> None]
    ELSE IF v.t = "Inline" THEN [w |-> w, ret |-> Raw(v.bytes)]
    ELSE LET Fetched(r) == IF r.ret = None THEN [w |-> Abort(r.w), ret |-> None] ELSE r
         IN  Fetched(ExternalDB_get(w, v.hash))

RECURSIVE look_up(_, _, _)
look_up(w, handle, key) ==
    LET Decoded(r) ==
          LET enc == r.ret
          IN  IF ~r.w.ok THEN [w |-> r.w, ret |-> None]
              ELSE IF enc = None \/ ~Decodable(enc) THEN [w |-> Abort(r.w), ret |-> None]
              ELSE IF enc = NullNodeData THEN [w |-> r.w, ret |-> None]
              ELSE IF enc.kind = "Leaf"
                   THEN IF enc.partial = key THEN load_value(r.w, enc.value)
                        ELSE [w |-> r.w, ret |-> None]
              ELSE LET common == common_prefix(key, enc.partial)
                   IN  IF common < Len(enc.partial) THEN [w |-> r.w, ret |-> None]
                       ELSE IF Len(key) = common THEN load_value(r.w, enc.value)
                       ELSE IF key[common + 1] \notin DOMAIN enc.children
                            THEN [w |-> r.w, ret |-> None]
                       ELSE look_up(r.w, enc.children[key[common + 1]], Mid(key, common + 2))
    IN  Decoded(IF handle.t = "Hash" THEN ExternalDB_get(w, handle.hash)
                ELSE [w |-> w, ret |-> handle.node])

(* TrieDBMut: insert, remove, fix, commit.  A handle is HashHandle(h) (a *)
(* stored node not changed by this call) or NewHandle(node) (a node built  *)
(* by this call); death is the death row, pairs <<hash, prefix>>.          *)

\* PartialEq for Value: a value whose hash is not yet computed never equals
\* a stored value node
Value_eq(stored, new) ==
    stored # None /\ stored.t = "Inline" /\ new.t = "Inline" /\ stored.bytes = new.bytes

\* replace_old_value
replace_old_value(stored, prefix) ==
    IF stored # None /\ stored.t = "Node" THEN {<<stored.hash, prefix>>} ELSE {}

\* TrieDBMut::cache for a hash handle, the node itself for an in-memory one
Load(w, handle) ==
    IF handle.t = "Hash"
    THEN LET Cached(r) ==
               IF ~r.w.ok THEN [w |-> r.w, node |-> Empty, cached |-> TRUE]
               ELSE IF r.ret = None \/ ~Decodable(r.ret)
                    THEN [w |-> Abort(r.w), node |-> Empty, cached |-> TRUE]
               ELSE [w |-> r.w, node |-> Node_from_encoded(r.ret), cached |-> TRUE]
         IN  Cached(ExternalDB_get(w, handle.hash))
    ELSE [w |-> w, node |-> handle.node, cached |-> FALSE]

RECURSIVE insert_at(_, _, _, _, _)
RECURSIVE insert_inspector(_, _, _, _, _)

insert_at(w, handle, key, prefix, value) ==
    LET Inspected(l, a) ==
          IF a.action = "Restore"
          THEN [w |-> a.w, node |-> IF l.cached THEN handle ELSE NewHandle(a.node),
                changed |-> FALSE, death |-> a.death]
          ELSE [w |-> a.w, node |-> NewHandle(a.node), changed |-> TRUE,
                death |-> a.death \cup (IF l.cached THEN {<<handle.hash, prefix>>} ELSE {})]
        Loaded(l) ==
          IF ~l.w.ok THEN [w |-> l.w, node |-> handle, changed |-> FALSE, death |-> {}]
          ELSE Inspected(l, insert_inspector(l.w, l.node, key, prefix, value))
    IN  Loaded(Load(w, handle))

insert_inspector(w, node, key, prefix, value) ==
    IF node.kind = "Empty"
    THEN [w |-> w, action |-> "Replace", node |-> Leaf(key, value), death |-> {}]
    ELSE
    LET existing == node.partial
        common == common_prefix(key, existing)
    IN  IF common = Len(existing) /\ common = Len(key)
        THEN \* equivalent leaf or branch: replace the value unless unchanged
             IF Value_eq(node.value, value)
             THEN [w |-> w, action |-> "Restore", node |-> node, death |-> {}]
             ELSE [w |-> w, action |-> "Replace", node |-> [node EXCEPT !.value = value],
                   death |-> replace_old_value(node.value, prefix \o key)]
        ELSE IF node.kind = "Leaf"
        THEN LET branch ==
                   IF common < Len(existing)
                   THEN NibbledBranch(SubSeq(key, 1, common),
                            [i \in {existing[common + 1]} |->
                               NewHandle(Leaf(Mid(existing, common + 2), node.value))],
                            None)
                   ELSE NibbledBranch(existing, NoChildren, node.value)
             IN  [insert_inspector(w, branch, key, prefix, value) EXCEPT !.action = "Replace"]
        ELSE IF common < Len(existing)
        THEN \* split the branch partial
             LET low == NibbledBranch(Mid(existing, common + 2), node.children, node.value)
                 ix == existing[common + 1]
             IN  IF Len(key) = common
                 THEN [w |-> w, action |-> "Replace", death |-> {},
                       node |-> NibbledBranch(SubSeq(existing, 1, common),
                                    [i \in {ix} |-> NewHandle(low)], value)]
                 ELSE [w |-> w, action |-> "Replace", death |-> {},
                       node |-> NibbledBranch(SubSeq(existing, 1, common),
                                    [i \in {ix, key[common + 1]} |->
                                       IF i = ix THEN NewHandle(low)
                                       ELSE NewHandle(Leaf(Mid(key, common + 2), value))],
                                    None)]
        ELSE \* common = Len(existing) < Len(key): descend
             LET idx == key[common + 1]
                 Descended(r) ==
                   [w |-> r.w, action |-> IF r.changed THEN "Replace" ELSE "Restore",
                    node |-> [node EXCEPT !.children[idx] = r.node], death |-> r.death]
             IN  IF idx \in DOMAIN node.children
                 THEN Descended(insert_at(w, node.children[idx], Mid(key, common + 2),
                                          prefix \o SubSeq(key, 1, common + 1), value))
                 ELSE [w |-> w, action |-> "Replace", death |-> {},
                       node |-> [node EXCEPT !.children =
                                   [i \in (DOMAIN node.children) \cup {idx} |->
                                      IF i = idx
                                      THEN NewHandle(Leaf(Mid(key, common + 2), value))
                                      ELSE node.children[i]]]]

\* TrieDBMut::fix: a branch left with one child and no value is merged with
\* that child, a branch left with no child becomes a leaf
fix(w, node, prefix) ==
    LET used == DOMAIN node.children
    IN  IF used = {} /\ node.value # None
        THEN [w |-> w, node |-> Leaf(node.partial, node.value), death |-> {}]
        ELSE IF Cardinality(used) = 1 /\ node.value = None
        THEN LET a == CHOOSE i \in used : TRUE
                 child_prefix == prefix \o node.partial \o <<a>>
                 Merged(l) ==
                   IF ~l.w.ok THEN [w |-> l.w, node |-> node, death |-> {}]
                   ELSE [w |-> l.w,
                         node |-> [l.node EXCEPT !.partial = node.partial \o <<a>> \o @],
                         death |-> IF l.cached
                                   THEN {<<node.children[a].hash, child_prefix>>}
                                   ELSE {}]
             IN  Merged(Load(w, node.children[a]))
        ELSE [w |-> w, node |-> node, death |-> {}]

RECURSIVE remove_at(_, _, _, _)
RECURSIVE remove_inspector(_, _, _, _)

\* node is None when the node was deleted
remove_at(w, handle, key, prefix) ==
    LET Inspected(l, a) ==
          LET own == IF l.cached THEN {<<handle.hash, prefix>>} ELSE {}
          IN  IF a.action = "Restore"
              THEN [w |-> a.w, node |-> IF l.cached THEN handle ELSE NewHandle(a.node),
                    changed |-> FALSE, death |-> a.death]
              ELSE IF a.action = "Replace"
                   THEN [w |-> a.w, node |-> NewHandle(a.node), changed |-> TRUE,
                         death |-> a.death \cup own]
              ELSE [w |-> a.w, node |-> None, changed |-> TRUE, death |-> a.death \cup own]
        Loaded(l) ==
          IF ~l.w.ok THEN [w |-> l.w, node |-> handle, changed |-> FALSE, death |-> {}]
          ELSE Inspected(l, remove_inspector(l.w, l.node, key, prefix))
    IN  Loaded(Load(w, handle))

remove_inspector(w, node, key, prefix) ==
    IF node.kind = "Empty"
    THEN [w |-> w, action |-> "Delete", node |-> node, death |-> {}]
    ELSE IF node.kind = "Leaf"
    THEN IF node.partial = key
         THEN [w |-> w, action |-> "Delete", node |-> node,
               death |-> replace_old_value(node.value, prefix \o key)]
         ELSE [w |-> w, action |-> "Restore", node |-> node, death |-> {}]
    ELSE
    LET existing == node.partial
        common == common_prefix(key, existing)
        Fixed(f, death) ==
          [w |-> f.w, action |-> "Replace", node |-> f.node, death |-> f.death \cup death]
    IN  IF common = Len(existing) /\ common = Len(key)
        THEN IF node.value # None
             THEN Fixed(fix(w, [node EXCEPT !.value = None], prefix),
                        replace_old_value(node.value, prefix \o key))
             ELSE [w |-> w, action |-> "Restore", node |-> node, death |-> {}]
        ELSE IF common < Len(existing)
        THEN [w |-> w, action |-> "Restore", node |-> node, death |-> {}]
        ELSE LET idx == key[common + 1]
                 Removed(r) ==
                   IF r.node # None
                   THEN [w |-> r.w,
                         action |-> IF r.changed THEN "Replace" ELSE "Restore",
                         node |-> [node EXCEPT !.children[idx] = r.node],
                         death |-> r.death]
                   ELSE Fixed(fix(r.w,
                                  [node EXCEPT !.children =
                                     [i \in (DOMAIN node.children) \ {idx} |->
                                        node.children[i]]],
                                  prefix),
                              r.death)
             IN  IF idx \notin DOMAIN node.children
                 THEN [w |-> w, action |-> "Restore", node |-> node, death |-> {}]
                 ELSE Removed(remove_at(w, node.children[idx], Mid(key, common + 2),
                                        prefix \o SubSeq(key, 1, common + 1)))

(* TrieDBMut::commit *)

\* one iteration order of the death row
RECURSIVE DeathRowOrder(_)
DeathRowOrder(death) ==
    IF death = {} THEN <<>>
    ELSE LET e == CHOOSE x \in death : TRUE
         IN  <<e>> \o DeathRowOrder(death \ {e})

RECURSIVE kill_death_row(_, _)
kill_death_row(w, row) ==
    IF row = <<>> THEN w
    ELSE kill_death_row(ExternalDB_remove(w, Head(row)[1]), Tail(row))

\* Value::into_encoded: a new value node is inserted into the database
commit_value(w, v) ==
    IF v # None /\ v.t = "NewNode"
    THEN LET Stored(r) == [w |-> r.w, value |-> NodeValue(r.ret)]
         IN  Stored(ExternalDB_insert(w, Raw(v.bytes)))
    ELSE [w |-> w, value |-> v]

RECURSIVE commit_node(_, _)
RECURSIVE commit_child(_, _)
RECURSIVE commit_children(_, _, _, _)

\* Node::into_encoded: the value first, then the children in nibble order
commit_node(w, node) ==
    IF node.kind = "Empty" THEN [w |-> w, enc |-> NullNodeData]
    ELSE LET Branch(v, c) ==
               [w |-> c.w, enc |-> NibbledBranch(node.partial, c.children, v.value)]
             Valued(v) ==
               IF node.kind = "Leaf"
               THEN [w |-> v.w, enc |-> Leaf(node.partial, v.value)]
               ELSE Branch(v, commit_children(v.w, node.children,
                                              Ascending(DOMAIN node.children), NoChildren))
         IN  Valued(commit_value(w, node.value))

\* TrieDBMut::commit_child: a child whose encoding is shorter than a hash is
\* embedded, any other is inserted into the database
commit_child(w, handle) ==
    IF handle.t = "Hash" THEN [w |-> w, ref |-> handle]
    ELSE LET Inserted(i) == [w |-> i.w, ref |-> HashHandle(i.ret)]
             Encoded(r) ==
               IF EncLen(r.enc) >= HASH_LENGTH
               THEN Inserted(ExternalDB_insert(r.w, r.enc))
               ELSE [w |-> r.w, ref |-> InlineHandle(r.enc)]
         IN  Encoded(commit_node(w, handle.node))

commit_children(w, children, idxs, acc) ==
    IF idxs = <<>> THEN [w |-> w, children |-> acc]
    ELSE LET i == Head(idxs)
             Added(c) ==
               commit_children(c.w, children, Tail(idxs),
                   [j \in (DOMAIN acc) \cup {i} |-> IF j = i THEN c.ref ELSE acc[j]])
         IN  Added(commit_child(w, children[i]))

\* handle is the root handle after the operation (None: the root was deleted)
commit(w, handle, death) ==
    LET Inserted(i) == [w |-> i.w, root |-> i.ret]
        Encoded(r) == Inserted(ExternalDB_insert(r.w, r.enc))
        Killed(w1) ==
          IF handle = None THEN [w |-> w1, root |-> HASHED_NULL_NODE]
          ELSE IF handle.t = "Hash" THEN [w |-> w1, root |-> handle.hash]
          ELSE Encoded(commit_node(w1, handle.node))
    IN  Killed(kill_death_row(w, DeathRowOrder(death)))

----------------------------------------------------------------------------
(* MerklePatriciaTrie *)

u32_from_le_bytes(b) == b[1] + 256 * b[2] + 65536 * b[3] + 16777216 * b[4]

u32_to_le_bytes(n) ==
    <<n % 256, (n \div 256) % 256, (n \div 65536) % 256, (n \div 16777216) % 256>>

extract_input(input) ==
    IF Len(input) < 4 THEN [ok |-> FALSE, vec |-> <<>>, rest |-> <<>>]
    ELSE LET key_len == u32_from_le_bytes(SubSeq(input, 1, 4))
             rest == Mid(input, 5)
         IN  IF key_len > Len(rest) THEN [ok |-> FALSE, vec |-> <<>>, rest |-> <<>>]
             ELSE [ok |-> TRUE, vec |-> SubSeq(rest, 1, key_len),
                   rest |-> Mid(rest, key_len + 1)]

\* insert taking the bytes after the key as the value
Mutant_insert_value_is_rest(w, root, input) ==
    LET k == extract_input(input)
        Inserted(r) ==
          IF ~r.w.ok THEN [w |-> r.w, root |-> root]
          ELSE commit(r.w, r.node, r.death)
    IN  IF ~k.ok THEN [w |-> Abort(w), root |-> root]
        ELSE Inserted(insert_at(w, HashHandle(root), Nibbles(k.vec), <<>>, Value_new(k.rest)))

MerklePatriciaTrie_insert(w, root, input) ==
    LET k == extract_input(input)
        v == extract_input(k.rest)
        Inserted(r) ==
          IF ~r.w.ok THEN [w |-> r.w, root |-> root]
          ELSE commit(r.w, r.node, r.death)
    IN  IF ~k.ok \/ ~v.ok \/ v.rest # <<>> THEN [w |-> Abort(w), root |-> root]
        ELSE Inserted(insert_at(w, HashHandle(root), Nibbles(k.vec), <<>>, Value_new(v.vec)))

MerklePatriciaTrie_remove(w, root, key) ==
    LET Removed(r) ==
          IF ~r.w.ok THEN [w |-> r.w, root |-> root]
          ELSE commit(r.w, r.node, r.death)
    IN  Removed(remove_at(w, HashHandle(root), Nibbles(key), <<>>))

MerklePatriciaTrie_get(w, root, key) == look_up(w, HashHandle(root), Nibbles(key))

MerklePatriciaTrie_exists(w, root, key) ==
    LET Found(r) == [w |-> r.w, ret |-> r.ret # None]
    IN  Found(look_up(w, HashHandle(root), Nibbles(key)))

----------------------------------------------------------------------------
(* BumpAllocator *)

PAGE_SIZE == 65536

NoArena == [kind |-> "None"]

heap_start == 0
heap_end == 0

InnerAlloc_new == [next |-> heap_start, upper_limit |-> heap_end]

\* required_pages rounding down
Mutant_required_pages_rounds_down(size) == size \div PAGE_SIZE

required_pages(size) == (size + (PAGE_SIZE - 1)) \div PAGE_SIZE

\* request_pages: the pages begin where the memory ended; the host grants
\* them (memory_grow) while the memory stays within MaxPages pages, some is
\* FALSE when it does not (None)
request_pages(inner, pages) ==
    IF inner.upper_limit + pages * PAGE_SIZE > MaxPages * PAGE_SIZE
    THEN [some |-> FALSE, start |-> 0]
    ELSE [some |-> TRUE, start |-> inner.upper_limit]

\* (next + align - 1) & !(align - 1), align a power of two
align_ptr(inner, align) == ((inner.next + align - 1) \div align) * align

\* alloc leaving the cursor where it was when the request fits the region
Mutant_alloc_keeps_cursor(inner, size, align) ==
    LET alloc_start == align_ptr(inner, align)
        alloc_end == alloc_start + size
        Grown(pages, page) ==
          IF ~page.some THEN [inner |-> inner, ptr |-> 0, some |-> FALSE]
          ELSE [inner |-> [next |-> page.start + size,
                           upper_limit |-> page.start + pages * PAGE_SIZE],
                ptr |-> page.start, some |-> TRUE]
    IN  IF alloc_end > inner.upper_limit
        THEN Grown(required_pages(size), request_pages(inner, required_pages(size)))
        ELSE [inner |-> inner, ptr |-> alloc_start, some |-> TRUE]

\* alloc on the growing path going on from the aligned start
Mutant_alloc_reuses_tail(inner, size, align) ==
    LET alloc_start == align_ptr(inner, align)
        alloc_end == alloc_start + size
        Grown(pages, page) ==
          IF ~page.some THEN [inner |-> inner, ptr |-> 0, some |-> FALSE]
          ELSE [inner |-> [next |-> alloc_end,
                           upper_limit |-> page.start + pages * PAGE_SIZE],
                ptr |-> alloc_start, some |-> TRUE]
    IN  IF alloc_end > inner.upper_limit
        THEN Grown(required_pages(size), request_pages(inner, required_pages(size)))
        ELSE [inner |-> [inner EXCEPT !.next = alloc_end], ptr |-> alloc_start,
              some |-> TRUE]

\* InnerAlloc::alloc: some is FALSE when it returns None, the arena as it was
InnerAlloc_alloc(inner, size, align) ==
    LET alloc_start == align_ptr(inner, align)
        alloc_end == alloc_start + size
        Grown(pages, page) ==
          IF ~page.some THEN [inner |-> inner, ptr |-> 0, some |-> FALSE]
          ELSE [inner |-> [next |-> page.start + size,
                           upper_limit |-> page.start + pages * PAGE_SIZE],
                ptr |-> page.start, some |-> TRUE]
    IN  IF alloc_end > inner.upper_limit
        THEN Grown(required_pages(size), request_pages(inner, required_pages(size)))
        ELSE [inner |-> [inner EXCEPT !.next = alloc_end], ptr |-> alloc_start,
              some |-> TRUE]

\* BumpAllocator::reset creating a fresh arena whatever INNER holds
Mutant_reset_discards(inner) == [ok |-> TRUE, inner |-> InnerAlloc_new]

\* BumpAllocator::reset: ok is FALSE when it aborts
BumpAllocator_reset(inner) ==
    IF inner # NoArena
    THEN [ok |-> FALSE, inner |-> inner]
    ELSE [ok |-> TRUE, inner |-> InnerAlloc_new]

\* GlobalAlloc::alloc: INNER.get_or_insert_with(InnerAlloc::new), then alloc;
\* the null pointer (ptr 0, some FALSE) is returned when alloc gives None
GlobalAlloc_alloc(inner, size, align) ==
    InnerAlloc_alloc(IF inner = NoArena THEN InnerAlloc_new ELSE inner, size, align)

\* GlobalAlloc::dealloc: the empty body
GlobalAlloc_dealloc(inner, ptr, size) == inner

\* pre_allocate_buffer accepting any length the callback reports
Mutant_pre_allocate_buffer_unchecked(inner, size, len) ==
    IF inner = NoArena
    THEN [ok |-> FALSE, inner |-> NoArena, ptr |-> 0]
    ELSE LET Filled(a) ==
               IF ~a.some
               THEN [ok |-> FALSE, inner |-> NoArena, ptr |-> 0]
               ELSE [ok |-> TRUE, inner |-> [a.inner EXCEPT !.next = a.ptr + len],
                     ptr |-> a.ptr]
         IN  Filled(InnerAlloc_alloc(inner, size, 1))

\* pre_allocate_buffer leaving the cursor at the end of the buffer
Mutant_pre_allocate_buffer_no_rewind(inner, size, len) ==
    IF inner = NoArena
    THEN [ok |-> FALSE, inner |-> NoArena, ptr |-> 0]
    ELSE LET Filled(a) ==
               IF ~a.some \/ len > size
               THEN [ok |-> FALSE, inner |-> NoArena, ptr |-> 0]
               ELSE [ok |-> TRUE, inner |-> a.inner, ptr |-> a.ptr]
         IN  Filled(InnerAlloc_alloc(inner, size, 1))

\* pre_allocate_buffer creating an arena when the slot holds none
Mutant_pre_allocate_buffer_creates_arena(inner, size, len) ==
    LET Filled(a) ==
          IF ~a.some \/ len > size
          THEN [ok |-> FALSE, inner |-> NoArena, ptr |-> 0]
          ELSE [ok |-> TRUE, inner |-> [a.inner EXCEPT !.next = a.ptr + len],
                ptr |-> a.ptr]
    IN  Filled(GlobalAlloc_alloc(inner, size, 1))

\* pre_allocate_buffer(size, callback): len is the used length the callback
\* reports; ok is FALSE when it aborts (the slot holds no arena: none
\* exists, or a pre-allocation has taken it; alloc gives None: out of
\* memory; len beyond the buffer: seg fault)
pre_allocate_buffer(inner, size, len) ==
    IF inner = NoArena
    THEN [ok |-> FALSE, inner |-> NoArena, ptr |-> 0]
    ELSE LET Filled(a) ==
               IF ~a.some \/ len > size
               THEN [ok |-> FALSE, inner |-> NoArena, ptr |-> 0]
               ELSE [ok |-> TRUE, inner |-> [a.inner EXCEPT !.next = a.ptr + len],
                     ptr |-> a.ptr]
         IN  Filled(InnerAlloc_alloc(inner, size, 1))

----------------------------------------------------------------------------
(* The dispatch entry point *)

\* call not writing the root hash back after a remove
Mutant_call_remove_keeps_root(st, inner, code, input, fail) ==
    IF ~BumpAllocator_reset(inner).ok
    THEN [w |-> Abort(World(st, fail)), inner |-> inner, ret |-> None]
    ELSE
    LET arena == pre_allocate_buffer(BumpAllocator_reset(inner).inner,
                                     Len(input), Len(input)).inner
        Inserted(t) ==
          [w |-> set_root_hash(t.w, t.root), inner |-> arena, ret |-> [u64 |-> 0]]
        Removed(t) == [w |-> t.w, inner |-> arena, ret |-> [u64 |-> 0]]
        Exists(t) == [w |-> t.w, inner |-> arena, ret |-> [u64 |-> IF t.ret THEN 1 ELSE 0]]
        Got(t) ==
          [w |-> t.w, inner |-> arena,
           ret |-> IF t.ret = None THEN [u64 |-> 0]
                   ELSE [len |-> Len(t.ret.bytes), bytes |-> t.ret.bytes]]
        Dispatch(g) ==
          IF ~g.w.ok THEN [w |-> g.w, inner |-> arena, ret |-> None]
          ELSE IF code = 0 THEN Inserted(MerklePatriciaTrie_insert(g.w, g.ret, input))
          ELSE IF code = 1 THEN Removed(MerklePatriciaTrie_remove(g.w, g.ret, input))
          ELSE IF code = 2 THEN Exists(MerklePatriciaTrie_exists(g.w, g.ret, input))
          ELSE IF code = 3 THEN Got(MerklePatriciaTrie_get(g.w, g.ret, input))
          ELSE IF code = 4
               THEN [w |-> g.w, inner |-> arena, ret |-> [len |-> HASH_LENGTH, bytes |-> g.ret]]
          ELSE [w |-> Abort(g.w), inner |-> arena, ret |-> None]
    IN  Dispatch(get_root_hash(World(st, fail)))

\* call writing the root hash back after a get as well
Mutant_call_get_writes_root(st, inner, code, input, fail) ==
    IF ~BumpAllocator_reset(inner).ok
    THEN [w |-> Abort(World(st, fail)), inner |-> inner, ret |-> None]
    ELSE
    LET arena == pre_allocate_buffer(BumpAllocator_reset(inner).inner,
                                     Len(input), Len(input)).inner
        Changed(t) ==
          [w |-> set_root_hash(t.w, t.root), inner |-> arena, ret |-> [u64 |-> 0]]
        Exists(t) == [w |-> t.w, inner |-> arena, ret |-> [u64 |-> IF t.ret THEN 1 ELSE 0]]
        Got(t, root) ==
          [w |-> set_root_hash(t.w, root), inner |-> arena,
           ret |-> IF t.ret = None THEN [u64 |-> 0]
                   ELSE [len |-> Len(t.ret.bytes), bytes |-> t.ret.bytes]]
        Dispatch(g) ==
          IF ~g.w.ok THEN [w |-> g.w, inner |-> arena, ret |-> None]
          ELSE IF code = 0 THEN Changed(MerklePatriciaTrie_insert(g.w, g.ret, input))
          ELSE IF code = 1 THEN Changed(MerklePatriciaTrie_remove(g.w, g.ret, input))
          ELSE IF code = 2 THEN Exists(MerklePatriciaTrie_exists(g.w, g.ret, input))
          ELSE IF code = 3 THEN Got(MerklePatriciaTrie_get(g.w, g.ret, input), g.ret)
          ELSE IF code = 4
               THEN [w |-> g.w, inner |-> arena, ret |-> [len |-> HASH_LENGTH, bytes |-> g.ret]]
          ELSE [w |-> Abort(g.w), inner |-> arena, ret |-> None]
    IN  Dispatch(get_root_hash(World(st, fail)))

\* call(code, input_len) on an instance whose allocator slot is inner, with
\* the host store st; fail is the host call answered with an error status
call(st, inner, code, input, fail) ==
    IF ~BumpAllocator_reset(inner).ok
    THEN \* BumpAllocator::reset: memory already initialized
         [w |-> Abort(World(st, fail)), inner |-> inner, ret |-> None]
    ELSE
    \* __load_input: the host fills the whole buffer of input_len bytes
    LET arena == pre_allocate_buffer(BumpAllocator_reset(inner).inner,
                                     Len(input), Len(input)).inner
        \* codes 0 and 1: the new root is written back
        Changed(t) ==
          [w |-> set_root_hash(t.w, t.root), inner |-> arena, ret |-> [u64 |-> 0]]
        Exists(t) == [w |-> t.w, inner |-> arena, ret |-> [u64 |-> IF t.ret THEN 1 ELSE 0]]
        Got(t) ==
          [w |-> t.w, inner |-> arena,
           ret |-> IF t.ret = None THEN [u64 |-> 0]
                   ELSE [len |-> Len(t.ret.bytes), bytes |-> t.ret.bytes]]
        Dispatch(g) ==
          IF ~g.w.ok THEN [w |-> g.w, inner |-> arena, ret |-> None]
          ELSE IF code = 0 THEN Changed(MerklePatriciaTrie_insert(g.w, g.ret, input))
          ELSE IF code = 1 THEN Changed(MerklePatriciaTrie_remove(g.w, g.ret, input))
          ELSE IF code = 2 THEN Exists(MerklePatriciaTrie_exists(g.w, g.ret, input))
          ELSE IF code = 3 THEN Got(MerklePatriciaTrie_get(g.w, g.ret, input))
          ELSE IF code = 4
               THEN [w |-> g.w, inner |-> arena, ret |-> [len |-> HASH_LENGTH, bytes |-> g.ret]]
          ELSE [w |-> Abort(g.w), inner |-> arena, ret |-> None]
    IN  Dispatch(get_root_hash(World(st, fail)))

----------------------------------------------------------------------------
(* Inputs *)

Bytes(n, b) == [i \in 1 .. n |-> b]

\* keys 0x01, 0x11, 0x0123, 0x1123: prefixes of one another and equal tails
Keys == {<<1>>, <<17>>, <<1, 35>>, <<17, 35>>}

\* an empty value, a value that makes its leaf as long as a hash, and a value
\* long enough to be kept in a value node
Values == {<<>>, Bytes(30, 8), Bytes(MAX_INLINE_VALUE, 9)}

Codes == 0 .. 5

\* input framing read by MerklePatriciaTrie::insert
InsertInput(k, v) ==
    u32_to_le_bytes(Len(k)) \o k \o u32_to_le_bytes(Len(v)) \o v

\* an insert input whose value is the remainder of the buffer after the key
UnprefixedInsertInput(k, v) == u32_to_le_bytes(Len(k)) \o k \o v

\* remainders: empty, shorter than a length, a zero length, a length and
\* that many bytes, a length and fewer bytes, a length and more bytes
UnprefixedValues ==
    {<<>>, <<7>>, <<0, 0, 0, 0>>, <<1, 0, 0, 0, 7>>, <<2, 0, 0, 0, 7>>, <<0, 0, 0, 0, 7>>}

CallInput(code, k, v) ==
    IF code = 0 THEN InsertInput(k, v)
    ELSE IF code \in {1, 2, 3} THEN k
    ELSE <<>>

\* contents and hashes given to the store operations
StoreValues == {Raw(<<>>), Raw(<<0>>), Raw(<<1>>), Raw(<<1, 2>>)}
StoreHashes == {Blake2(v) : v \in StoreValues}

\* values one byte short of, exactly at and one byte over MAX_VALUE_SIZE
SizedValues ==
    {Raw(Bytes(MAX_VALUE_SIZE - 1, 1)), Raw(Bytes(MAX_VALUE_SIZE, 1)),
     Raw(Bytes(MAX_VALUE_SIZE + 1, 1))}
SizedHashes == {Blake2(v) : v \in SizedValues}

NoStorage == [k \in {} |-> None]

NoCall == [op |-> "none", arg |-> None, ret |-> None, ok |-> TRUE, fail |-> 0,
           status |-> 0, log |-> <<>>, pre |-> NoStorage]

\* no Branch Index built
NoIndex == [kind |-> "None"]

\* no arena created: origin is how the arena came to be, ranges the ranges
\* handed out in it in order, tails the bytes between the cursor and the
\* limit left behind by every request that began new pages, freed the
\* positions in ranges of the deallocated ones
NoHeap == [origin |-> "none", ranges |-> <<>>, tails |-> {}, freed |-> {}]

\* the count persisted for a hash in a host store
CountIn(st, hash) ==
    IF CounterKey(hash) \in DOMAIN st THEN i32_from_ne_bytes(st[CounterKey(hash)]) ELSE 0

----------------------------------------------------------------------------
(* Specification of the dispatch calls *)

Init ==
    /\ storage = NoStorage
    /\ INNER = NoArena
    /\ lastCall = NoCall
    /\ kv = [k \in Keys |-> None]
    /\ committed = NoStorage
    /\ refs = [h \in StoreHashes |-> [n |-> 0, data |-> None]]
    /\ clean = TRUE
    /\ heap = NoHeap
    /\ index = NoIndex

\* the host runs every call on a fresh instance: linear memory is wiped
Instantiate ==
    /\ clean
    /\ INNER # NoArena
    /\ INNER' = NoArena
    /\ lastCall' = NoCall
    /\ heap' = NoHeap
    /\ UNCHANGED <<storage, kv, committed, refs, clean, index>>

Call(code, k, v, fail) ==
    LET Returned(r) ==
          /\ FailureHit(r.w)
          /\ storage' = r.w.st
          /\ INNER' = r.inner
          /\ lastCall' = [op |-> "call", arg |-> [code |-> code, key |-> k, value |-> v],
                          ret |-> r.ret, ok |-> r.w.ok, fail |-> fail,
                          status |-> r.w.status, log |-> r.w.log, pre |-> storage]
          /\ kv' = IF r.w.ok /\ code = 0 THEN [kv EXCEPT ![k] = Raw(v)]
                   ELSE IF r.w.ok /\ code = 1 THEN [kv EXCEPT ![k] = None]
                   ELSE kv
          /\ committed' = IF r.w.ok THEN r.w.st ELSE committed
          /\ clean' = r.w.ok
          /\ UNCHANGED <<refs, heap, index>>
    IN  /\ clean
        /\ code # 0 => v = <<>>
        /\ code \notin {0, 1, 2, 3} => k = <<1>>
        /\ Returned(call(storage, INNER, code, CallInput(code, k, v), fail))

Next ==
    \/ Instantiate
    \/ \E code \in Codes, k \in Keys, v \in Values, fail \in 0 .. MaxFail :
          Call(code, k, v, fail)

Spec == Init /\ [][Next]_vars

----------------------------------------------------------------------------
(* Specification of the insert input framing: inserts whose input carries  *)
(* the value behind a length, and inserts whose input carries the value as *)
(* the remainder of the buffer; no host call fails                         *)

CallUnprefixed(k, v) ==
    LET Returned(r, parsed) ==
          /\ storage' = r.w.st
          /\ INNER' = r.inner
          /\ lastCall' = [op |-> "call_unprefixed",
                          arg |-> [code |-> 0, key |-> k, value |-> v],
                          ret |-> r.ret, ok |-> r.w.ok, fail |-> 0,
                          status |-> r.w.status, log |-> r.w.log, pre |-> storage]
          /\ kv' = IF r.w.ok THEN [kv EXCEPT ![k] = Raw(parsed.vec)] ELSE kv
          /\ committed' = IF r.w.ok THEN r.w.st ELSE committed
          /\ clean' = r.w.ok
          /\ UNCHANGED <<refs, heap, index>>
    IN  /\ clean
        /\ Returned(call(storage, INNER, 0, UnprefixedInsertInput(k, v), 0),
                    extract_input(v))

NextInput ==
    \/ Instantiate
    \/ \E k \in Keys, v \in Values : Call(0, k, v, 0)
    \/ \E k \in Keys, v \in UnprefixedValues : CallUnprefixed(k, v)

SpecInput == Init /\ [][NextInput]_vars

----------------------------------------------------------------------------
(* Specification of the store operations (impl HashDB for ExternalDB) *)

StoreStep(op, hash, value, r, counted) ==
    /\ clean
    /\ FailureHit(r.w)
    /\ storage' = r.w.st
    /\ lastCall' = [op |-> op, arg |-> [hash |-> hash, value |-> value],
                    ret |-> r.ret, ok |-> r.w.ok, fail |-> r.w.fail,
                    status |-> r.w.status, log |-> r.w.log, pre |-> storage]
    /\ committed' = IF r.w.ok THEN r.w.st ELSE committed
    /\ clean' = (clean /\ r.w.ok)
    /\ refs' = IF ~r.w.ok \/ counted = 0 THEN refs
               ELSE [refs EXCEPT ![hash] =
                       [n |-> IF @.n + counted < 0 THEN 0 ELSE @.n + counted,
                        data |-> IF @.n = 0 THEN value ELSE @.data]]
    /\ UNCHANGED <<INNER, kv, heap, index>>

StoreInsert(value, fail) ==
    /\ CountIn(storage, Blake2(value)) < MaxCount
    /\ LET r == ExternalDB_insert(World(storage, fail), value)
       IN  StoreStep("insert", Blake2(value), value, r,
                     IF value = Raw(<<>>) \/ value = NullNodeData THEN 0 ELSE 1)

StoreEmplace(hash, value, fail) ==
    /\ CountIn(storage, hash) < MaxCount
    /\ LET w == ExternalDB_emplace(World(storage, fail), hash, value)
       IN  StoreStep("emplace", hash, value, [w |-> w, ret |-> None],
                     IF value = Raw(<<>>) \/ hash = HASHED_NULL_NODE THEN 0 ELSE 1)

StoreRemove(hash, fail) ==
    LET w == ExternalDB_remove(World(storage, fail), hash)
    IN  StoreStep("remove", hash, None, [w |-> w, ret |-> None],
                  IF hash = HASHED_NULL_NODE THEN 0 ELSE -1)

StoreGet(hash, fail) ==
    StoreStep("get", hash, None, ExternalDB_get(World(storage, fail), hash), 0)

StoreContains(hash, fail) ==
    StoreStep("contains", hash, None, ExternalDB_contains(World(storage, fail), hash), 0)

NextStore ==
    \/ \E value \in StoreValues, fail \in 0 .. MaxStoreFail : StoreInsert(value, fail)
    \/ \E hash \in StoreHashes, value \in StoreValues, fail \in 0 .. MaxStoreFail :
          StoreEmplace(hash, value, fail)
    \/ \E hash \in StoreHashes, fail \in 0 .. MaxStoreFail : StoreRemove(hash, fail)
    \/ \E hash \in StoreHashes, fail \in 0 .. MaxStoreFail : StoreGet(hash, fail)
    \/ \E hash \in StoreHashes, fail \in 0 .. MaxStoreFail : StoreContains(hash, fail)

SpecStore == Init /\ [][NextStore]_vars

----------------------------------------------------------------------------
(* Abstractions used by the properties *)

\* the persisted root hash (the empty-trie constant before the bootstrap)
RootOf(st) == IF EMPTY_PTR \in DOMAIN st THEN st[EMPTY_PTR] ELSE HASHED_NULL_NODE

\* hashes an encoded node refers to: value node, out-of-line children and
\* the references of its embedded children
RECURSIVE HashesIn(_)
HashesIn(enc) ==
    IF enc.kind \notin {"Leaf", "NibbledBranch"} THEN {}
    ELSE (IF enc.value # None /\ enc.value.t = "Node" THEN {enc.value.hash} ELSE {})
         \cup (IF enc.kind = "Leaf" THEN {}
               ELSE UNION {IF enc.children[i].t = "Hash" THEN {enc.children[i].hash}
                           ELSE HashesIn(enc.children[i].node) : i \in DOMAIN enc.children})

\* hashes reachable from the hashes in frontier through the nodes stored in st
RECURSIVE ReachAll(_, _, _)
ReachAll(st, frontier, seen) ==
    IF frontier = {} THEN seen
    ELSE LET h == CHOOSE x \in frontier : TRUE
             next == IF h # HASHED_NULL_NODE /\ ValueKey(h) \in DOMAIN st
                     THEN HashesIn(st[ValueKey(h)]) \ (seen \cup {h})
                     ELSE {}
         IN  ReachAll(st, (frontier \ {h}) \cup next, seen \cup {h})

Reachable(st) == ReachAll(st, {RootOf(st)}, {})

\* what dispatch code 3 returns for a key bound to v (None: unbound)
GetResult(v) == IF v = None THEN [u64 |-> 0] ELSE [len |-> Len(v.bytes), bytes |-> v.bytes]

CompletedCall(code) == lastCall.op = "call" /\ lastCall.ok /\ lastCall.arg.code = code

\* the last operation issued the host call op on key
Issued(op, key) == \E i \in DOMAIN lastCall.log : lastCall.log[i] = [op |-> op, key |-> key]

\* the last operation was the store operation op and returned to its caller
CompletedStoreOp(ops) == lastCall.op \in ops /\ lastCall.ok

\* insert or emplace that reaches internal_emplace
CountingOp ==
    \/ CompletedStoreOp({"insert"})
          /\ lastCall.arg.value # Raw(<<>>) /\ lastCall.arg.value # NullNodeData
    \/ CompletedStoreOp({"emplace"})
          /\ lastCall.arg.value # Raw(<<>>) /\ lastCall.arg.hash # HASHED_NULL_NODE

----------------------------------------------------------------------------
(* Properties *)

\* C1: the dispatch calls refine a key/value map.  A completed get returns
\* the value of the latest insert of its key not followed by a remove and 0
\* otherwise, a completed exists returns 1 exactly when that value is
\* present; a call the host answers without error completes, and in every
\* state left by completed calls a lookup of every key from the persisted
\* root finds the value the map holds.
C1_RefinesMap ==
    /\ CompletedCall(3) => lastCall.ret = GetResult(kv[lastCall.arg.key])
    /\ CompletedCall(2) => lastCall.ret = [u64 |-> IF kv[lastCall.arg.key] = None THEN 0 ELSE 1]
    /\ (lastCall.op = "call" /\ lastCall.arg.code \in 0 .. 3
          /\ lastCall.fail = 0 /\ lastCall.log # <<>>) => lastCall.ok
    /\ clean => \A k \in Keys :
                   LET r == MerklePatriciaTrie_get(World(storage, 0), RootOf(storage), k)
                   IN  r.w.ok /\ r.ret = kv[k]

\* a get that returns a stored value while another key is bound and a third
\* has been inserted and removed again
C1_Witness ==
    /\ CompletedCall(3)
    /\ lastCall.ret = [len |-> MAX_INLINE_VALUE, bytes |-> Bytes(MAX_INLINE_VALUE, 9)]
    /\ Cardinality({k \in Keys : kv[k] # None}) = 2
    /\ Cardinality(DOMAIN storage) > 5

\* C2: after a completed remove(h), when the completed inserts of h exceed
\* the completed removes (insert, insert, remove) the content is still
\* returned by get(h) and the persisted count is that difference; when they
\* do not (one more remove), get(h) returns absent and no counter entry
\* exists under the counter key of h.
C2_RefcountedRemove ==
    (lastCall.op = "remove" /\ lastCall.ok /\ lastCall.arg.hash # HASHED_NULL_NODE) =>
        LET h == lastCall.arg.hash
            g == ExternalDB_get(World(storage, 0), h)
        IN  IF refs[h].n >= 1
            THEN g.ret = refs[h].data /\ CountIn(storage, h) = refs[h].n
            ELSE g.ret = None /\ CounterKey(h) \notin DOMAIN storage

\* insert(v), insert(v), remove(h): the count went from 2 to 1
C2_Witness ==
    /\ lastCall.op = "remove" /\ lastCall.ok
    /\ lastCall.arg.hash = Blake2(Raw(<<1>>))
    /\ CountIn(lastCall.pre, lastCall.arg.hash) = 2
    /\ refs[lastCall.arg.hash] = [n |-> 1, data |-> Raw(<<1>>)]
    /\ storage[ValueKey(lastCall.arg.hash)] = Raw(<<1>>)

\* C3: after completed insert and remove calls every hash reachable from the
\* persisted root is the empty-trie hash or has its value entry present,
\* holding the content it is the digest of, with a count of at least 1.
C3_GcSafe ==
    clean => \A h \in Reachable(storage) :
                h # HASHED_NULL_NODE =>
                    /\ ValueKey(h) \in DOMAIN storage
                    /\ Blake2(storage[ValueKey(h)]) = h
                    /\ CountIn(storage, h) >= 1

\* a completed remove that left a node referenced from two places
C3_Witness ==
    /\ CompletedCall(1)
    /\ lastCall.pre # storage
    /\ \E h \in Reachable(storage) : CountIn(storage, h) = 2

\* C4 (as claimed): when an insert or remove call aborts, the persisted root
\* is the root of the last completed call and every node reachable from it
\* is present with the count it had.
C4_AbortKeepsCommitted ==
    (lastCall.op = "call" /\ ~lastCall.ok /\ lastCall.arg.code \in {0, 1}) =>
        /\ RootOf(storage) = RootOf(committed)
        /\ \A h \in Reachable(committed) :
              h # HASHED_NULL_NODE =>
                  /\ ValueKey(h) \in DOMAIN storage
                  /\ CountIn(storage, h) = CountIn(committed, h)

\* C5: after a completed call the root slot holds the empty-trie constant
\* exactly when no key is bound.
C5_EmptyRoot ==
    (lastCall.op = "call" /\ lastCall.ok) =>
        /\ EMPTY_PTR \in DOMAIN storage
        /\ (storage[EMPTY_PTR] = HASHED_NULL_NODE) <=> (\A k \in Keys : kv[k] = None)

\* the remove of the last key of a trie that held one
C5_Witness ==
    /\ CompletedCall(1)
    /\ \A k \in Keys : kv[k] = None
    /\ RootOf(lastCall.pre) # HASHED_NULL_NODE
    /\ storage[EMPTY_PTR] = HASHED_NULL_NODE

\* C6: in every state reached by store operations that completed, no
\* persisted count of a hash other than the empty-trie hash is negative and
\* a counter entry exists only with a value greater than 0; a remove that
\* takes the count from 1 to 0 clears the counter entry and writes no zero.
C6_CounterPositive ==
    clean =>
        /\ \A h \in StoreHashes \ {HASHED_NULL_NODE} :
              /\ CountIn(storage, h) >= 0
              /\ CounterKey(h) \in DOMAIN storage => CountIn(storage, h) > 0
        /\ (CompletedStoreOp({"remove"}) /\ CountIn(lastCall.pre, lastCall.arg.hash) = 1) =>
              /\ CounterKey(lastCall.arg.hash) \notin DOMAIN storage
              /\ Issued("clear_storage", CounterKey(lastCall.arg.hash))
              /\ ~Issued("set_storage", CounterKey(lastCall.arg.hash))

\* a remove that took a count from 1 to 0
C6_Witness ==
    /\ clean
    /\ CompletedStoreOp({"remove"})
    /\ CountIn(lastCall.pre, lastCall.arg.hash) = 1
    /\ CountIn(storage, lastCall.arg.hash) = 0

\* C7: insert or emplace on a hash whose count is at least 1 issues no write
\* to the value entry and raises the count by exactly 1; over any completed
\* operation the payload under a hash is the same before and after while its
\* count is at least 1 before and after.
C7_ValueWrittenOnce ==
    /\ (CountingOp /\ CountIn(lastCall.pre, lastCall.arg.hash) >= 1) =>
          /\ ~Issued("set_storage", ValueKey(lastCall.arg.hash))
          /\ CountIn(storage, lastCall.arg.hash) = CountIn(lastCall.pre, lastCall.arg.hash) + 1
    /\ \A h \in StoreHashes :
          (lastCall.ok /\ CountIn(lastCall.pre, h) >= 1 /\ CountIn(storage, h) >= 1) =>
              /\ ValueKey(h) \in DOMAIN storage
              /\ ValueKey(h) \in DOMAIN lastCall.pre
              /\ storage[ValueKey(h)] = lastCall.pre[ValueKey(h)]

\* an emplace that gives other bytes for a hash that is already counted
C7_Witness ==
    /\ CompletedStoreOp({"emplace"})
    /\ CountIn(lastCall.pre, lastCall.arg.hash) = 1
    /\ CountIn(storage, lastCall.arg.hash) = 2
    /\ lastCall.arg.value \notin {Raw(<<>>), storage[ValueKey(lastCall.arg.hash)]}

\* C8: remove of a hash whose count is 0 does not abort when the host
\* answers without error, issues exactly one host call, the read of the
\* counter key, and leaves the host store unchanged.
C8_RemoveAbsentNoop ==
    (lastCall.op = "remove" /\ lastCall.arg.hash # HASHED_NULL_NODE
        /\ CountIn(lastCall.pre, lastCall.arg.hash) = 0 /\ lastCall.fail = 0) =>
        /\ lastCall.ok
        /\ lastCall.log = <<[op |-> "get_storage", key |-> CounterKey(lastCall.arg.hash)]>>
        /\ storage = lastCall.pre

\* a remove of an absent hash on a store that holds other entries
C8_Witness ==
    /\ CompletedStoreOp({"remove"})
    /\ lastCall.arg.hash # HASHED_NULL_NODE
    /\ CountIn(lastCall.pre, lastCall.arg.hash) = 0
    /\ lastCall.fail = 0
    /\ DOMAIN storage # {}

\* C9: for the empty-trie hash, get, contains, insert of the empty-node
\* encoding, emplace and remove issue no host call: get returns the one-byte
\* empty-node encoding, contains returns true, insert returns the constant;
\* no value entry and no counter entry of the empty-trie hash ever exists.
C9_NullNodeUntouched ==
    /\ (lastCall.op \in {"get", "contains", "emplace", "remove"}
          /\ lastCall.arg.hash = HASHED_NULL_NODE) =>
          /\ lastCall.ok /\ lastCall.log = <<>> /\ storage = lastCall.pre
          /\ lastCall.op = "get" => lastCall.ret = NullNodeData
          /\ lastCall.op = "contains" => lastCall.ret = TRUE
    /\ (lastCall.op = "insert" /\ lastCall.arg.value = NullNodeData) =>
          /\ lastCall.ok /\ lastCall.log = <<>> /\ storage = lastCall.pre
          /\ lastCall.ret = HASHED_NULL_NODE
    /\ ValueKey(HASHED_NULL_NODE) \notin DOMAIN storage
    /\ CounterKey(HASHED_NULL_NODE) \notin DOMAIN storage

\* an emplace of bytes under the empty-trie hash on a store that holds entries
C9_Witness ==
    /\ lastCall.op = "emplace"
    /\ lastCall.arg.hash = HASHED_NULL_NODE
    /\ lastCall.arg.value = Raw(<<1>>)
    /\ DOMAIN storage # {}

\* C10 (as claimed): for every byte string v, the empty one included, the
\* hash a completed insert(v) returns is the digest of v and v is counted
\* and stored under that hash (the empty-trie hash, which is never counted,
\* excepted).
C10_InsertReturnsDigest ==
    CompletedStoreOp({"insert"}) =>
        /\ lastCall.ret = Blake2(lastCall.arg.value)
        /\ lastCall.ret # HASHED_NULL_NODE =>
              /\ CountIn(storage, lastCall.ret) >= 1
              /\ ValueKey(lastCall.ret) \in DOMAIN storage
              /\ storage[ValueKey(lastCall.ret)] = lastCall.arg.value

----------------------------------------------------------------------------
(* Root hash management *)

RootRead == [op |-> "get_storage", key |-> EMPTY_PTR]
RootWrite == [op |-> "set_storage", key |-> EMPTY_PTR]

\* a dispatch call that got as far as its first host call
DispatchedCall == lastCall.op = "call" /\ lastCall.log # <<>>

\* C11: the root slot is bootstrapped exactly once.  A call that finds the
\* slot absent runs on the untouched store, and unless the read itself
\* fails its second host call writes the slot, which then holds the
\* empty-trie hash until the write-back.  A call that finds the slot
\* populated reads a hash from it, reports that content as the root (code 4)
\* and writes the slot only as the write-back that ends codes 0 and 1; a slot
\* once populated stays populated.
C11_BootstrapOnce ==
    DispatchedCall =>
      LET log == lastCall.log
          pre == lastCall.pre
          code == lastCall.arg.code
      IN  /\ log[1] = RootRead
          /\ EMPTY_PTR \notin DOMAIN pre =>
                /\ pre = NoStorage
                /\ lastCall.fail # 1 => (Len(log) >= 2 /\ log[2] = RootWrite)
                /\ (lastCall.fail \notin {1, 2} /\ ~(lastCall.ok /\ code \in {0, 1})) =>
                      (EMPTY_PTR \in DOMAIN storage /\ storage[EMPTY_PTR] = HASHED_NULL_NODE)
                /\ (lastCall.ok /\ code = 4) => lastCall.ret.bytes = HASHED_NULL_NODE
          /\ EMPTY_PTR \in DOMAIN pre =>
                /\ DOMAIN pre[EMPTY_PTR] = {"digest"}
                /\ EMPTY_PTR \in DOMAIN storage
                /\ \A i \in 1 .. Len(log) :
                      log[i] = RootWrite =>
                        (i = Len(log) /\ code \in {0, 1} /\ lastCall.fail \in {0, i})
                /\ (lastCall.ok /\ code = 4) => lastCall.ret.bytes = pre[EMPTY_PTR]

\* a completed code-4 call that found the slot holding the root of a
\* non-empty trie
C11_Witness ==
    /\ DispatchedCall
    /\ lastCall.ok
    /\ lastCall.arg.code = 4
    /\ EMPTY_PTR \in DOMAIN lastCall.pre
    /\ lastCall.pre[EMPTY_PTR] # HASHED_NULL_NODE
    /\ lastCall.ret.bytes = lastCall.pre[EMPTY_PTR]

\* host calls of the last operation that write the root slot
RootWrites == {i \in 1 .. Len(lastCall.log) : lastCall.log[i] = RootWrite}

\* C12 as stated: every completed dispatch call of codes 0 to 4 reads the
\* root slot first and ends with a write of the root slot.
C12_AlwaysWrittenBack ==
    (DispatchedCall /\ lastCall.ok /\ lastCall.arg.code \in 0 .. 4) =>
      /\ lastCall.log[1] = RootRead
      /\ lastCall.log[Len(lastCall.log)] = RootWrite

\* C12 amended: every dispatch call of codes 0 to 4 reads the root slot as
\* its first host call, and only then; a completed call of code 0 or 1 ends
\* with a write of the root slot, a completed call of code 2, 3 or 4 leaves
\* the root slot as it read it (or as the bootstrap wrote it) and issues no
\* write-back.
C12_ReadFirstUpdatesWriteBack ==
    (DispatchedCall /\ lastCall.arg.code \in 0 .. 4) =>
      LET log == lastCall.log
          code == lastCall.arg.code
          found == EMPTY_PTR \in DOMAIN lastCall.pre
      IN  /\ {i \in 1 .. Len(log) : log[i] = RootRead} = {1}
          /\ (lastCall.ok /\ code \in {0, 1}) =>
                (Len(log) >= 2 /\ log[Len(log)] = RootWrite)
          /\ (lastCall.ok /\ code \in {2, 3, 4}) =>
                /\ RootWrites = (IF found THEN {} ELSE {2})
                /\ storage[EMPTY_PTR] =
                      (IF found THEN lastCall.pre[EMPTY_PTR] ELSE HASHED_NULL_NODE)

\* a completed get that found its key in a populated trie and wrote nothing
C12_Witness ==
    /\ DispatchedCall
    /\ lastCall.ok
    /\ lastCall.arg.code = 3
    /\ EMPTY_PTR \in DOMAIN lastCall.pre
    /\ lastCall.ret # [u64 |-> 0]
    /\ RootWrites = {}
    /\ storage = lastCall.pre

----------------------------------------------------------------------------
(* Input framing *)

\* what a get of the key of the last call finds from the persisted root
StoredForKey ==
    MerklePatriciaTrie_get(World(storage, 0), RootOf(storage), lastCall.arg.key).ret

\* the last call was an insert that got past the allocator reset
InsertCall(op) == lastCall.op = op /\ lastCall.arg.code = 0 /\ lastCall.log # <<>>

\* C13 as stated: an insert whose input is the key length, the key and the
\* value as the remainder of the buffer completes, returns 0 and binds the
\* key to that value.
C13_ValueIsRemainder ==
    InsertCall("call_unprefixed") =>
      /\ lastCall.ok
      /\ lastCall.ret = [u64 |-> 0]
      /\ StoredForKey = Raw(lastCall.arg.value)

\* C13 amended: an insert whose input is the key length, the key, the value
\* length and exactly that many value bytes completes, returns 0 and binds
\* the key to the value; an input whose bytes after the key are not a
\* length followed by exactly that many bytes aborts the call and leaves
\* the trie as it was, and one whose bytes happen to be so framed binds the
\* key to the bytes after the length.
C13_ValueIsLengthPrefixed ==
    /\ InsertCall("call") =>
          /\ lastCall.ok
          /\ lastCall.ret = [u64 |-> 0]
          /\ StoredForKey = Raw(lastCall.arg.value)
    /\ InsertCall("call_unprefixed") =>
          LET v == lastCall.arg.value
              framed == Len(v) >= 4 /\ u32_from_le_bytes(SubSeq(v, 1, 4)) = Len(v) - 4
          IN  /\ lastCall.ok = framed
              /\ framed => (lastCall.ret = [u64 |-> 0] /\ StoredForKey = Raw(Mid(v, 5)))
              /\ ~framed => RootOf(storage) = RootOf(lastCall.pre)

\* a completed insert of a value kept in a node of its own, over a trie that
\* already held bindings
C13_Witness ==
    /\ InsertCall("call")
    /\ lastCall.ok
    /\ Len(lastCall.arg.value) = MAX_INLINE_VALUE
    /\ RootOf(lastCall.pre) # HASHED_NULL_NODE
    /\ StoredForKey = Raw(lastCall.arg.value)

----------------------------------------------------------------------------
(* Specification of the store operations on values around MAX_VALUE_SIZE *)

SizedInsert(value, fail) ==
    /\ CountIn(storage, Blake2(value)) < MaxCount
    /\ StoreStep("insert", Blake2(value), value,
                 ExternalDB_insert(World(storage, fail), value), 0)

SizedRemove(hash, fail) ==
    StoreStep("remove", hash, None,
              [w |-> ExternalDB_remove(World(storage, fail), hash), ret |-> None], 0)

SizedGet(hash, fail) ==
    StoreStep("get", hash, None, ExternalDB_get(World(storage, fail), hash), 0)

NextSized ==
    \/ \E value \in SizedValues, fail \in 0 .. MaxStoreFail : SizedInsert(value, fail)
    \/ \E hash \in SizedHashes, fail \in 0 .. MaxStoreFail : SizedRemove(hash, fail)
    \/ \E hash \in SizedHashes, fail \in 0 .. MaxStoreFail : SizedGet(hash, fail)

SpecSized == Init /\ [][NextSized]_vars

\* C14: a get of a stored value on which no host call fails returns the
\* value when it is at most MAX_VALUE_SIZE bytes long and aborts only when
\* it is longer.
C14_GetUpToMaxValueSize ==
    (lastCall.op = "get" /\ lastCall.fail = 0
       /\ ValueKey(lastCall.arg.hash) \in DOMAIN lastCall.pre) =>
      LET stored == lastCall.pre[ValueKey(lastCall.arg.hash)]
      IN  IF Len(stored.bytes) <= MAX_VALUE_SIZE
          THEN lastCall.ok /\ lastCall.ret = stored
          ELSE ~lastCall.ok

----------------------------------------------------------------------------
(* Specification of the store operations and the root read against a host  *)
(* that answers one host call with any non-zero status                     *)

Statuses == {HostError, OtherError, KeyNotFound}

HostStep(op, hash, value, r) ==
    /\ r.w.fail = 0 => r.w.status = HostError
    /\ StoreStep(op, hash, value, r, 0)

HostInsert(value, fail, status) ==
    /\ CountIn(storage, Blake2(value)) < MaxCount
    /\ HostStep("insert", Blake2(value), value,
                ExternalDB_insert(WorldAnswering(storage, fail, status), value))

HostRemove(hash, fail, status) ==
    HostStep("remove", hash, None,
             [w |-> ExternalDB_remove(WorldAnswering(storage, fail, status), hash),
              ret |-> None])

HostGet(hash, fail, status) ==
    HostStep("get", hash, None,
             ExternalDB_get(WorldAnswering(storage, fail, status), hash))

HostContains(hash, fail, status) ==
    HostStep("contains", hash, None,
             ExternalDB_contains(WorldAnswering(storage, fail, status), hash))

HostRootRead(fail, status) ==
    HostStep("get_root_hash", HASHED_NULL_NODE, None,
             get_root_hash(WorldAnswering(storage, fail, status)))

NextHost ==
    \/ \E value \in StoreValues, fail \in 0 .. MaxStoreFail, status \in Statuses :
          HostInsert(value, fail, status)
    \/ \E hash \in StoreHashes, fail \in 0 .. MaxStoreFail, status \in Statuses :
          HostRemove(hash, fail, status)
    \/ \E hash \in StoreHashes, fail \in 0 .. MaxStoreFail, status \in Statuses :
          HostGet(hash, fail, status)
    \/ \E hash \in StoreHashes, fail \in 0 .. MaxStoreFail, status \in Statuses :
          HostContains(hash, fail, status)
    \/ \E fail \in 0 .. MaxStoreFail, status \in Statuses : HostRootRead(fail, status)

SpecHost == Init /\ [][NextHost]_vars

\* the host call of the last operation that was answered with a non-zero
\* status was a get_storage answered with key not found
AnsweredNotFound ==
    /\ lastCall.fail # 0
    /\ lastCall.log[lastCall.fail].op = "get_storage"
    /\ lastCall.status = KeyNotFound

\* the last operation began by reading key and found it absent, or was
\* answered key not found
Absent(key) ==
    /\ lastCall.log # <<>>
    /\ lastCall.log[1] = [op |-> "get_storage", key |-> key]
    /\ IF lastCall.fail = 1 THEN lastCall.status = KeyNotFound
       ELSE key \notin DOMAIN lastCall.pre

----------------------------------------------------------------------------
(* Arena *)

\* C16: every invocation begins on an empty arena.  A dispatch call of code
\* 0 to 4 none of whose host calls fails, made on a fresh instance or after
\* any completed calls on the same instance, runs to completion and leaves
\* an arena that holds its input buffer alone, from the heap start.
C16_ResetRebuildsArena ==
    (lastCall.op = "call" /\ lastCall.arg.code \in 0 .. 4 /\ lastCall.fail = 0) =>
      /\ lastCall.ok
      /\ INNER # NoArena
      /\ INNER.next =
            heap_start + Len(CallInput(lastCall.arg.code, lastCall.arg.key,
                                        lastCall.arg.value))

----------------------------------------------------------------------------
(* Specification of the allocator: reset, allocations through the global   *)
(* allocator and scoped pre-allocations on the INNER slot of one instance, *)
(* which the host may wipe                                                 *)

\* sizes on both sides of a page boundary, and the size of a Vec header
AllocSizes == {0, 1, PAGE_SIZE - 1, PAGE_SIZE + 1}

\* power-of-two alignments up to two pages
AllocAligns == {1, 8, 2 * PAGE_SIZE}

\* requested sizes and reported used lengths of a pre-allocated buffer
BufferSizes == {0, 3, PAGE_SIZE + 1}
BufferLens == {0, 3, 4}

AllocStep(op, arg, ok, inner, ret, after) ==
    /\ clean
    /\ INNER' = inner
    /\ lastCall' = [op |-> op, arg |-> arg, ret |-> ret, ok |-> ok, fail |-> 0,
                    status |-> 0, log |-> <<>>, pre |-> storage]
    /\ clean' = ok
    /\ heap' = IF ok THEN after ELSE heap
    /\ UNCHANGED <<storage, kv, committed, refs, index>>

\* the arena a request is served from: the one in the slot, or the one
\* get_or_insert_with creates
Serving(inner) == IF inner = NoArena THEN InnerAlloc_new ELSE inner

\* the history after a request of size bytes at align was answered with a:
\* the range given, and the tail left behind when it began new pages
Given(origin, inner, size, align, a, used) ==
    IF ~a.some THEN [heap EXCEPT !.origin = origin]
    ELSE [origin |-> origin,
          ranges |-> Append(heap.ranges, [ptr |-> a.ptr, size |-> used]),
          tails |-> IF align_ptr(inner, align) + size > inner.upper_limit
                    THEN heap.tails \cup {[from |-> inner.next, to |-> inner.upper_limit]}
                    ELSE heap.tails,
          freed |-> heap.freed]

Reset ==
    LET Done(r) ==
          AllocStep("reset", [inner |-> INNER, origin |-> heap.origin], r.ok, r.inner,
                    None, [NoHeap EXCEPT !.origin = "reset"])
    IN  Done(BumpAllocator_reset(INNER))

Alloc(size, align) ==
    LET Done(a) ==
          AllocStep("alloc", [inner |-> INNER, size |-> size, align |-> align], TRUE,
                    a.inner, [some |-> a.some, ptr |-> a.ptr],
                    Given(IF INNER = NoArena THEN "alloc" ELSE heap.origin,
                          Serving(INNER), size, align, a, size))
    IN  /\ Len(heap.ranges) < MaxAllocs
        /\ Done(GlobalAlloc_alloc(INNER, size, align))

Dealloc(i) ==
    /\ i \in DOMAIN heap.ranges
    /\ i \notin heap.freed
    /\ Cardinality(heap.freed) < MaxFrees
    /\ AllocStep("dealloc", [inner |-> INNER, index |-> i], TRUE,
                 GlobalAlloc_dealloc(INNER, heap.ranges[i].ptr, heap.ranges[i].size),
                 None, [heap EXCEPT !.freed = @ \cup {i}])

PreAllocate(size, len) ==
    LET Done(b) ==
          AllocStep("pre_allocate_buffer", [inner |-> INNER, size |-> size, len |-> len],
                    b.ok, b.inner, [some |-> b.ok, ptr |-> b.ptr],
                    Given(heap.origin, Serving(INNER), size, 1,
                          [some |-> b.ok, ptr |-> b.ptr], len))
    IN  /\ Len(heap.ranges) < MaxAllocs
        /\ Done(pre_allocate_buffer(INNER, size, len))

\* INNER.take(): the arena moves out of the slot, which is left holding None
INNER_take(inner) == [taken |-> inner, slot |-> NoArena]

\* a pre-allocation whose callback calls pre_allocate_buffer(size, ..): the
\* inner call finds the slot as the outer one left it
PreAllocateRecursive(size, len) ==
    LET Done(b) ==
          AllocStep("pre_allocate_buffer_recursive",
                    [inner |-> INNER, size |-> size, len |-> len],
                    b.ok, b.inner, [some |-> b.ok, ptr |-> b.ptr], heap)
    IN  /\ INNER # NoArena
        /\ Done(pre_allocate_buffer(INNER_take(INNER).slot, size, len))

NextAlloc ==
    \/ Instantiate
    \/ Reset
    \/ \E size \in AllocSizes, align \in AllocAligns : Alloc(size, align)
    \/ \E i \in 1 .. MaxAllocs : Dealloc(i)
    \/ \E size \in BufferSizes, len \in BufferLens : PreAllocate(size, len)
    \/ \E size \in BufferSizes : PreAllocateRecursive(size, 0)

SpecAlloc == Init /\ [][NextAlloc]_vars

\* the last operation was an allocation or a pre-allocation that gave a range
GaveRange ==
    /\ lastCall.op \in {"alloc", "pre_allocate_buffer"}
    /\ lastCall.ok
    /\ lastCall.ret.some

\* C17: reset aborts exactly when an arena is live, whether an earlier reset
\* or a first allocation created it, and then leaves it as it is; when no
\* arena exists it creates an empty one.
C17_ResetGuard ==
    lastCall.op = "reset" =>
      /\ lastCall.ok = (lastCall.arg.inner = NoArena)
      /\ lastCall.ok => (INNER = InnerAlloc_new /\ heap.ranges = <<>>)
      /\ ~lastCall.ok => (INNER = lastCall.arg.inner /\ INNER # NoArena)

\* a reset that aborted on an arena created by a first allocation
C17_Witness ==
    /\ lastCall.op = "reset"
    /\ ~lastCall.ok
    /\ lastCall.arg.origin = "alloc"
    /\ heap.ranges # <<>>

\* C18: the ranges handed out in one arena are pairwise disjoint, and the
\* range an allocation returns lies between the heap start and the cursor.
C18_RangesDisjoint ==
    /\ \A i, j \in 1 .. Len(heap.ranges) :
          i < j =>
            LET a == heap.ranges[i]
                b == heap.ranges[j]
            IN  \/ a.size = 0 \/ b.size = 0
                \/ a.ptr + a.size <= b.ptr
                \/ b.ptr + b.size <= a.ptr
    /\ GaveRange =>
          LET r == heap.ranges[Len(heap.ranges)]
          IN  /\ r.ptr = lastCall.ret.ptr
              /\ heap_start <= r.ptr
              /\ r.ptr + r.size <= INNER.next

\* three non-empty ranges handed out in one arena, the last one by an
\* allocation that did not fit the region and began a new page
C18_Witness ==
    /\ Len(heap.ranges) = 3
    /\ \A i \in 1 .. 3 : heap.ranges[i].size > 0
    /\ lastCall.op = "alloc"
    /\ lastCall.arg.inner # NoArena
    /\ lastCall.ret.some
    /\ lastCall.ret.ptr = lastCall.arg.inner.upper_limit
    /\ lastCall.ret.ptr > 0

\* C19: the offset an allocation returns is a multiple of the alignment it
\* was asked for.
C19_OffsetAligned ==
    (lastCall.op = "alloc" /\ lastCall.ret.some) =>
      lastCall.ret.ptr % lastCall.arg.align = 0

\* C20: the cursor of a live arena is between 0 and the limit; after an
\* allocation or a pre-allocation the limit is a whole number of pages and
\* not below the end of the range given.
C20_CursorWithinLimit ==
    /\ INNER # NoArena => (0 <= INNER.next /\ INNER.next <= INNER.upper_limit)
    /\ GaveRange =>
          /\ INNER.upper_limit % PAGE_SIZE = 0
          /\ lastCall.ret.ptr + lastCall.arg.size <= INNER.upper_limit

\* a pre-allocation whose callback used less than the buffer, on a live
\* arena with ranges handed out: the cursor is rewound below the buffer end
C20_Witness ==
    /\ lastCall.op = "pre_allocate_buffer"
    /\ lastCall.ok
    /\ lastCall.arg.len < lastCall.arg.size
    /\ Len(heap.ranges) >= 2
    /\ INNER.next = lastCall.ret.ptr + lastCall.arg.len
    /\ INNER.next < INNER.upper_limit

\* C21: an allocation that fits the region returns the cursor rounded up to
\* the alignment, moves the cursor to the end of the range and leaves the
\* limit; one that does not fit is given the old limit, the limit grows by
\* the least number of pages covering the size, and the cursor is the old
\* limit plus the size.
C21_AllocMatchesReference ==
    (lastCall.op = "alloc" /\ lastCall.ret.some) =>
      LET old == Serving(lastCall.arg.inner)
          size == lastCall.arg.size
          align == lastCall.arg.align
          offset == old.next + ((align - (old.next % align)) % align)
          pages == size \div PAGE_SIZE + (IF size % PAGE_SIZE = 0 THEN 0 ELSE 1)
      IN  IF offset + size <= old.upper_limit
          THEN /\ lastCall.ret.ptr = offset
               /\ INNER.next = offset + size
               /\ INNER.upper_limit = old.upper_limit
          ELSE /\ lastCall.ret.ptr = old.upper_limit
               /\ INNER.upper_limit = old.upper_limit + pages * PAGE_SIZE
               /\ INNER.next = old.upper_limit + size

\* an allocation of more than one page on an arena whose region it does not
\* fit: two pages are granted at the old limit
C21_Witness ==
    /\ lastCall.op = "alloc"
    /\ lastCall.ret.some
    /\ lastCall.arg.inner # NoArena
    /\ lastCall.arg.inner.upper_limit > 0
    /\ lastCall.arg.size = PAGE_SIZE + 1
    /\ lastCall.ret.ptr = lastCall.arg.inner.upper_limit
    /\ INNER.upper_limit = lastCall.arg.inner.upper_limit + 2 * PAGE_SIZE

\* the last operation was an allocation of a small object, the second of an
\* arena whose first object was one byte short of a page
SmallAfterJustUnderPage ==
    /\ lastCall.op = "alloc"
    /\ lastCall.ret.some
    /\ lastCall.arg.inner = [next |-> PAGE_SIZE - 1, upper_limit |-> PAGE_SIZE]
    /\ lastCall.arg.size < PAGE_SIZE - 1
    /\ Len(heap.ranges) = 2
    /\ heap.ranges[1] = [ptr |-> 0, size |-> PAGE_SIZE - 1]

\* no range handed out reaches into an abandoned tail; deallocate leaves the
\* cursor and the limit; a freed range overlaps no other range of the arena
NoBackwardReuse ==
    /\ \A i \in 1 .. Len(heap.ranges) : \A t \in heap.tails :
          \/ heap.ranges[i].ptr + heap.ranges[i].size <= t.from
          \/ heap.ranges[i].ptr >= t.to
    /\ lastCall.op = "dealloc" => INNER = lastCall.arg.inner
    /\ \A i \in heap.freed : \A j \in 1 .. Len(heap.ranges) :
          (i # j /\ heap.ranges[i].size > 0 /\ heap.ranges[j].size > 0) =>
            \/ heap.ranges[i].ptr + heap.ranges[i].size <= heap.ranges[j].ptr
            \/ heap.ranges[j].ptr + heap.ranges[j].size <= heap.ranges[i].ptr

\* C22 as stated: after an object one byte short of a page on a fresh arena
\* every small object is placed at the start of the next page; abandoned
\* tails and freed ranges are never handed out again.
C22_SmallObjectOnNextPage ==
    /\ SmallAfterJustUnderPage => lastCall.ret.ptr = PAGE_SIZE
    /\ NoBackwardReuse

\* C22: after an object one byte short of a page on a fresh arena a small
\* object that does not fit the bytes left on the first page is placed at the
\* start of the next page; abandoned tails and freed ranges are never handed
\* out again.
C22_NoBackwardReuse ==
    /\ (/\ SmallAfterJustUnderPage
        /\ align_ptr(lastCall.arg.inner, lastCall.arg.align) + lastCall.arg.size
             > lastCall.arg.inner.upper_limit)
         => lastCall.ret.ptr = PAGE_SIZE
    /\ NoBackwardReuse

\* a small object given the start of the second page after the first page
\* was left with one free byte, and a range freed before a later allocation
C22_Witness ==
    /\ SmallAfterJustUnderPage
    /\ lastCall.arg.size > 0
    /\ lastCall.ret.ptr = PAGE_SIZE
    /\ [from |-> PAGE_SIZE - 1, to |-> PAGE_SIZE] \in heap.tails
    /\ heap.freed = {1}

C29_PreAllocateAborts ==
    /\ (/\ lastCall.op = "pre_allocate_buffer"
        /\ \/ lastCall.arg.inner = NoArena
           \/ lastCall.arg.len > lastCall.arg.size) => ~lastCall.ok
    /\ lastCall.op = "pre_allocate_buffer_recursive" => ~lastCall.ok
    /\ ~lastCall.ok => ~clean

\* a pre-allocation aborted from inside the callback of one on a live arena
C29_Witness ==
    /\ lastCall.op = "pre_allocate_buffer_recursive"
    /\ lastCall.arg.inner # NoArena
    /\ lastCall.arg.inner.next > 0
    /\ ~lastCall.ok
    /\ ~clean

\* the last allocation needed more pages than the host had left to grant
GrowthRefused ==
    /\ lastCall.op = "alloc"
    /\ align_ptr(Serving(lastCall.arg.inner), lastCall.arg.align) + lastCall.arg.size
         > Serving(lastCall.arg.inner).upper_limit
    /\ ~request_pages(Serving(lastCall.arg.inner), required_pages(lastCall.arg.size)).some

\* C30: an allocation whose pages the host refuses aborts the execution and
\* hands no null offset back to its caller.
C30_GrowthFailureFatal ==
    GrowthRefused => (~lastCall.ok /\ ~clean)

----------------------------------------------------------------------------
(* Branch Index (children.rs): a presence mask of 16 bits and 16 slots    *)

\* usize::MAX, the content of an empty slot, written as the all-ones word;
\* the references pushed are indices of the decoded list and never reach it
usize_MAX == -1

\* the number of values of a u16
U16 == 65536

Bit(x, i) == (x \div (2 ^ i)) % 2

\* a & b, a | b and a ^ b on u16
BitAnd(a, b) ==
    LET sum[i \in 0 .. 16] ==
          IF i = 16 THEN 0 ELSE Bit(a, i) * Bit(b, i) * (2 ^ i) + sum[i + 1]
    IN  sum[0]

BitOr(a, b) == a + b - BitAnd(a, b)

BitXor(a, b) == a + b - 2 * BitAnd(a, b)

\* !a on u16
BitNot(a) == (U16 - 1) - a

\* u16::wrapping_shl: the shift amount is taken modulo the 16 bits
wrapping_shl(x, n) == (x * (2 ^ (n % 16))) % U16

\* u16::trailing_zeros
trailing_zeros(x) ==
    IF x = 0 THEN 16
    ELSE CHOOSE i \in 0 .. 15 : Bit(x, i) = 1 /\ \A j \in 0 .. i - 1 : Bit(x, j) = 0

Children_new == [mask |-> 0, children |-> [i \in 0 .. 15 |-> usize_MAX]]

\* push that overwrites the slot of a nibble already present
Mutant_push_overwrites(c, val, partial) ==
    IF partial >= 16
    THEN [ok |-> FALSE, c |-> c]
    ELSE [ok |-> TRUE,
          c |-> [mask |-> BitOr(c.mask, wrapping_shl(1, partial)),
                 children |-> [c.children EXCEPT ![partial] = val]]]

\* Children::push(val, partial); ok is FALSE when it aborts
Children_push(c, val, partial) ==
    LET flag == wrapping_shl(1, partial)
    IN  IF partial >= 16 \/ BitAnd(flag, c.mask) # 0
        THEN [ok |-> FALSE, c |-> c]
        ELSE [ok |-> TRUE,
              c |-> [mask |-> BitOr(c.mask, flag),
                     children |-> [c.children EXCEPT ![partial] = val]]]

\* ChildrenIter::new: a copy of the mask; the slots are read through ptr
ChildrenIter_new(c) == [mask |-> c.mask]

NoPair == [some |-> FALSE, value |-> 0, offset |-> 0]

\* next that isolates the highest set bit of the mask
Mutant_next_highest_bit(c, it) ==
    IF it.mask = 0
    THEN [ok |-> TRUE, pair |-> NoPair, it |-> it]
    ELSE LET offset == CHOOSE i \in 0 .. 15 :
                         Bit(it.mask, i) = 1 /\ \A j \in i + 1 .. 15 : Bit(it.mask, j) = 0
         IN  [ok |-> TRUE,
              pair |-> [some |-> TRUE, value |-> c.children[offset], offset |-> offset],
              it |-> [mask |-> it.mask - 2 ^ offset]]

\* ChildrenIter::next; ok is FALSE when it aborts on an empty slot
ChildrenIter_next(c, it) ==
    IF it.mask = 0
    THEN [ok |-> TRUE, pair |-> NoPair, it |-> it]
    ELSE LET next == BitAnd((BitNot(it.mask) + 1) % U16, it.mask)
             offset == trailing_zeros(next)
         IN  IF c.children[offset] = usize_MAX
             THEN [ok |-> FALSE, pair |-> NoPair, it |-> [mask |-> BitXor(it.mask, next)]]
             ELSE [ok |-> TRUE,
                   pair |-> [some |-> TRUE, value |-> c.children[offset],
                             offset |-> offset],
                   it |-> [mask |-> BitXor(it.mask, next)]]

----------------------------------------------------------------------------
(* Specification of the Branch Index: an index is built by pushes; while  *)
(* an iterator borrows it no push is possible                              *)

\* pushes accepted by one Branch Index
MaxPushes == 4

\* indices of the decoded list pushed as references
PushVals == {0, 1}

\* the nibbles of the index test and two values that are no nibble
PushPartials == {0, 3, 7, 15, 16, 19}

NoIter == [some |-> FALSE, mask |-> 0]

NoYield == [some |-> FALSE, seq |-> <<>>]

\* a Branch Index c nobody iterates, after the pushes of the sequence pushed
Built(c, pushed) ==
    [kind |-> "Children", c |-> c, pushed |-> pushed, it |-> NoIter,
     yielded |-> <<>>, ended |-> FALSE, prev |-> NoYield]

ChildrenStep(op, arg, ok, ret, after) ==
    /\ clean
    /\ lastCall' = [op |-> op, arg |-> arg, ret |-> ret, ok |-> ok, fail |-> 0,
                    status |-> 0, log |-> <<>>, pre |-> storage]
    /\ clean' = ok
    /\ index' = IF ok THEN after ELSE index
    /\ UNCHANGED <<storage, INNER, kv, committed, refs, heap>>

New ==
    ChildrenStep("new", None, TRUE, None, Built(Children_new, <<>>))

Push(val, partial) ==
    LET Done(r) ==
          ChildrenStep("push", [index |-> index, val |-> val, partial |-> partial],
                       r.ok, None,
                       Built(r.c, Append(index.pushed, [val |-> val, partial |-> partial])))
    IN  /\ index # NoIndex
        /\ ~index.it.some
        /\ Len(index.pushed) < MaxPushes
        /\ Done(Children_push(index.c, val, partial))

Iter ==
    /\ index # NoIndex
    /\ ~index.it.some
    /\ ChildrenStep("iter", [index |-> index], TRUE, None,
                    [index EXCEPT !.it = [some |-> TRUE, mask |-> ChildrenIter_new(index.c).mask],
                                  !.yielded = <<>>, !.ended = FALSE])

IterNext ==
    LET Done(r) ==
          ChildrenStep("next", [index |-> index], r.ok, r.pair,
                       [index EXCEPT !.it = [some |-> TRUE, mask |-> r.it.mask],
                                     !.yielded = IF r.pair.some
                                                 THEN Append(@, [val |-> r.pair.value,
                                                                 partial |-> r.pair.offset])
                                                 ELSE @,
                                     !.ended = ~r.pair.some])
    IN  /\ index # NoIndex
        /\ index.it.some
        /\ ~index.ended
        /\ Done(ChildrenIter_next(index.c, [mask |-> index.it.mask]))

\* the iterator goes out of scope; a complete iteration is remembered
IterDrop ==
    /\ index # NoIndex
    /\ index.it.some
    /\ ChildrenStep("drop", [index |-> index], TRUE, None,
                    [index EXCEPT !.it = NoIter,
                                  !.prev = IF index.ended
                                           THEN [some |-> TRUE, seq |-> index.yielded]
                                           ELSE @])

NextChildren ==
    \/ New
    \/ \E val \in PushVals, partial \in PushPartials : Push(val, partial)
    \/ Iter
    \/ IterNext
    \/ IterDrop

SpecChildren == Init /\ [][NextChildren]_vars

\* the positions of the accepted pushes of nibble n
PushedAt(pushed, n) == {i \in DOMAIN pushed : pushed[i].partial = n}

\* the nibbles of a sequence of pairs, in its order
PartialsOf(pairs) == [i \in DOMAIN pairs |-> pairs[i].partial]

\* C23: a push aborts exactly when its nibble is 16 or more or was pushed
\* before; every nibble was pushed at most once, its presence bit is set
\* exactly when it was pushed and exactly when its slot holds a reference,
\* which is the reference pushed for it.
C23_PushGuard ==
    /\ lastCall.op = "push" =>
          /\ lastCall.ok =
               ~(\/ lastCall.arg.partial >= 16
                 \/ PushedAt(lastCall.arg.index.pushed, lastCall.arg.partial) # {})
          /\ ~lastCall.ok => (~clean /\ index = lastCall.arg.index)
    /\ index # NoIndex =>
          \A n \in 0 .. 15 :
            /\ Cardinality(PushedAt(index.pushed, n)) <= 1
            /\ (Bit(index.c.mask, n) = 1) <=> (PushedAt(index.pushed, n) # {})
            /\ (index.c.children[n] # usize_MAX) <=> (Bit(index.c.mask, n) = 1)
            /\ \A i \in PushedAt(index.pushed, n) :
                  index.c.children[n] = index.pushed[i].val

\* a push aborted on a nibble that holds a reference, in an index of three
C23_Witness ==
    /\ lastCall.op = "push"
    /\ ~lastCall.ok
    /\ lastCall.arg.partial < 16
    /\ Len(index.pushed) = 3
    /\ index.c.children[lastCall.arg.partial] # lastCall.arg.val

\* C24: an iteration yields pushed pairs in strictly ascending nibble order
\* and, when it ends, has yielded one pair for every push; it leaves the
\* index as it was, and it yields what the complete iteration before it
\* yielded; after pushes of 3, 0, 15, 7 it yields 0, 3, 7, 15.
C24_IterationAscending ==
    /\ (index # NoIndex /\ index.it.some) =>
          /\ \A i \in 1 .. Len(index.yielded) - 1 :
                index.yielded[i].partial < index.yielded[i + 1].partial
          /\ \A i \in DOMAIN index.yielded :
                \E j \in DOMAIN index.pushed : index.pushed[j] = index.yielded[i]
          /\ index.ended =>
                /\ Len(index.yielded) = Len(index.pushed)
                /\ index.prev.some => index.prev.seq = index.yielded
                /\ PartialsOf(index.pushed) = <<3, 0, 15, 7>>
                     => PartialsOf(index.yielded) = <<0, 3, 7, 15>>
    /\ lastCall.op \in {"iter", "next", "drop"} =>
          /\ lastCall.ok
          /\ index.c = lastCall.arg.index.c
          /\ index.pushed = lastCall.arg.index.pushed

\* the second complete iteration of an index built by pushes of 3, 0, 15, 7
\* with two different references
C24_Witness ==
    /\ index # NoIndex
    /\ PartialsOf(index.pushed) = <<3, 0, 15, 7>>
    /\ \E i, j \in DOMAIN index.pushed : index.pushed[i].val # index.pushed[j].val
    /\ index.ended
    /\ index.prev.some
    /\ lastCall.op = "next"
    /\ ~lastCall.ret.some
    /\ PartialsOf(index.yielded) = <<0, 3, 7, 15>>

----------------------------------------------------------------------------
(* The decoder (trie.rs): the stored node graph below the root hash is     *)
(* decoded into a flat list of TrieNode, children before their parent.     *)
(* A decode d carries the world d.w, the list d.nodes, d.ok (FALSE once    *)
(* it has aborted, d.abort then names the abort) and two histories: the    *)
(* hashes passed to db.get, and for every encoding parsed its id, its kind *)
(* and the number of hashes fetched before it.                             *)

\* a Branch and an Extension of the node plans of the consumed codec
Branch(children, value) == [kind |-> "Branch", children |-> children, value |-> value]

Extension(partial, child) == [kind |-> "Extension", partial |-> partial, child |-> child]

\* NodeCodec::decode_plan succeeds on the content
decode_plan(enc) ==
    enc = NullNodeData \/ enc.kind \in {"Leaf", "Branch", "NibbledBranch", "Extension"}

NoId == [some |-> FALSE, hash |-> HASHED_NULL_NODE]
SomeId(hash) == [some |-> TRUE, hash |-> hash]

NoBytes == [some |-> FALSE, bytes |-> <<>>]
SomeBytes(bytes) == [some |-> TRUE, bytes |-> bytes]

NoRaw == [some |-> FALSE, enc |-> NullNodeData]

NoPartial == [some |-> FALSE, n |-> 0]
SomePartial(n) == [some |-> TRUE, n |-> n]

\* nibble_to_str: None for an empty partial key
nibble_to_str(partial) == IF partial = <<>> THEN NoBytes ELSE SomeBytes(partial)

\* value_to_bytes: the bytes of an inline value, the hash of a value node
value_to_bytes(v) == IF v.t = "Inline" THEN v.bytes ELSE ValueKey(v.hash)

TrieNode(id, nibbles, value, raw_bytes) ==
    [id |-> id, nibbles |-> nibbles, value |-> value, children |-> Children_new,
     raw_bytes |-> raw_bytes]

Decode(w) ==
    [w |-> w, nodes |-> <<>>, ok |-> TRUE, abort |-> "", fetched |-> <<>>,
     entered |-> <<>>]

Aborted(d, message) == [d EXCEPT !.ok = FALSE, !.abort = message]

NoNodeIndex == [some |-> FALSE, index |-> 0]

\* the scan that finds no decoded node
Mutant_find_index_never(nodes, key) == NoNodeIndex

\* a scan that reports a decoded node 512 places after its own
Mutant_find_index_shifted(nodes, key) ==
    LET M == {i \in DOMAIN nodes : nodes[i].id.some /\ nodes[i].id.hash = key}
    IN  IF M = {} THEN NoNodeIndex
        ELSE [some |-> TRUE, index |-> (CHOOSE i \in M : \A j \in M : i <= j) - 1 + 512]

\* nodes.iter().enumerate().find_map(..): the index of the first decoded
\* node whose id is the key
find_index(nodes, key) ==
    LET M == {i \in DOMAIN nodes : nodes[i].id.some /\ nodes[i].id.hash = key}
    IN  IF M = {} THEN NoNodeIndex
        ELSE [some |-> TRUE, index |-> (CHOOSE i \in M : \A j \in M : i <= j) - 1]

\* an Extension arm that passes nibble 0 for its child
Mutant_ExtensionPartial_zero == SomePartial(0)

\* the partial the Extension arm passes for its child
ExtensionPartial == NoPartial

RECURSIVE decode_recursive(_, _, _)
RECURSIVE decode_child_recursive(_, _, _, _)
RECURSIVE decode_children_recursive(_, _, _, _)

decode_child_recursive(d, parent, child, partial) ==
    LET Linked(dd, i) ==
          LET Pushed(r) ==
                IF r.ok THEN [d |-> dd, parent |-> [parent EXCEPT !.children = r.c]]
                ELSE [d |-> Aborted(dd, "an node can have at maximum 16 children"),
                      parent |-> parent]
          IN  Pushed(Children_push(parent.children, i, partial.n))
        Decoded(r) ==
          IF r.d.ok THEN Linked(r.d, r.index) ELSE [d |-> r.d, parent |-> parent]
        Fetched(g) ==
          IF ~g.w.ok
          THEN [d |-> Aborted([d EXCEPT !.w = g.w, !.fetched = Append(@, child.hash)],
                              "host"),
                parent |-> parent]
          ELSE IF g.ret = None
               THEN [d |-> Aborted([d EXCEPT !.w = g.w, !.fetched = Append(@, child.hash)],
                                   "invalid children"),
                     parent |-> parent]
          ELSE Decoded(decode_recursive(
                         [d EXCEPT !.w = g.w, !.fetched = Append(@, child.hash)],
                         g.ret, SomeId(child.hash)))
        Found(i) ==
          IF i.some THEN Linked(d, i.index)
          ELSE Fetched(ExternalDB_get(d.w, child.hash))
    IN  IF ~d.ok THEN [d |-> d, parent |-> parent]
        ELSE IF ~partial.some
             THEN [d |-> Aborted(d, "extension node not supported"), parent |-> parent]
        ELSE IF child.t = "Hash" THEN Found(find_index(d.nodes, child.hash))
        ELSE Decoded(decode_recursive(d, child.node, NoId))

\* the children from nibble partial on, in ascending order
decode_children_recursive(d, parent, children, partial) ==
    LET Rest(r) == decode_children_recursive(r.d, r.parent, children, partial + 1)
    IN  IF partial = 16 \/ ~d.ok THEN [d |-> d, parent |-> parent]
        ELSE IF partial \notin DOMAIN children
             THEN decode_children_recursive(d, parent, children, partial + 1)
        ELSE Rest(decode_child_recursive(d, parent, children[partial],
                                         SomePartial(partial)))

decode_recursive(d, bytes, node_id) ==
    LET raw_bytes == IF node_id.some THEN NoRaw ELSE [some |-> TRUE, enc |-> bytes]
        Entered == [d EXCEPT !.entered = Append(@, [id |-> node_id, kind |-> bytes.kind,
                                                   fetches |-> Len(d.fetched)])]
        Value(v) == IF v = None THEN NoBytes ELSE SomeBytes(value_to_bytes(v))
        Listed(r) ==
          IF ~r.d.ok THEN [d |-> r.d, index |-> 0]
          ELSE [d |-> [r.d EXCEPT !.nodes = Append(@, r.parent)],
                index |-> Len(r.d.nodes)]
    IN  IF ~d.ok THEN [d |-> d, index |-> 0]
        ELSE IF ~decode_plan(bytes)
             THEN [d |-> Aborted(d, "decode_plan failed"), index |-> 0]
        ELSE IF bytes = NullNodeData
             THEN Listed([d |-> Entered,
                          parent |-> TrieNode(node_id, NoBytes, NoBytes, raw_bytes)])
        ELSE IF bytes.kind = "Leaf"
             THEN Listed([d |-> Entered,
                          parent |-> TrieNode(node_id, nibble_to_str(bytes.partial),
                                              SomeBytes(value_to_bytes(bytes.value)),
                                              raw_bytes)])
        ELSE IF bytes.kind = "Branch"
             THEN Listed(decode_children_recursive(
                           Entered,
                           TrieNode(node_id, NoBytes, Value(bytes.value), raw_bytes),
                           bytes.children, 0))
        ELSE IF bytes.kind = "NibbledBranch"
             THEN Listed(decode_children_recursive(
                           Entered,
                           TrieNode(node_id, nibble_to_str(bytes.partial),
                                    Value(bytes.value), raw_bytes),
                           bytes.children, 0))
        ELSE Listed(decode_child_recursive(
                      Entered,
                      TrieNode(node_id, nibble_to_str(bytes.partial), NoBytes, raw_bytes),
                      bytes.child, ExtensionPartial))

(* The export of the decoded list (trie_builder.rs).  An export x is the   *)
(* world together with the abort it ended in, if any; a builder holds what *)
(* was set on it and the children pushed to it in order                    *)

Export(w) == [w |-> w, ok |-> TRUE, abort |-> ""]

Stopped(x, message) == [x EXCEPT !.ok = FALSE, !.abort = message]

NoBuilder ==
    [id |-> NoId, nibbles |-> NoBytes, value |-> NoBytes, raw_bytes |-> NoRaw,
     children |-> <<>>]

RECURSIVE JSTrieBuilder_from_trie(_, _, _)
RECURSIVE from_trie_children(_, _, _, _, _)

\* the loop over node.children.iter() of from_trie
from_trie_children(x, root, children, it, nodes) ==
    LET Pushed(r, n) ==
          IF ~r.x.ok THEN [x |-> r.x, root |-> root]
          ELSE from_trie_children(
                 r.x,
                 [root EXCEPT !.children =
                    Append(@, [nibble |-> n.pair.offset, child |-> r.root])],
                 children, n.it, nodes)
        Stepped(n) ==
          IF ~n.ok THEN [x |-> Stopped(x, "empty slot"), root |-> root]
          ELSE IF ~n.pair.some THEN [x |-> x, root |-> root]
          ELSE IF n.pair.value \notin 0 .. Len(nodes) - 1
               THEN [x |-> Stopped(x, "child at index not found"), root |-> root]
          ELSE Pushed(JSTrieBuilder_from_trie(x, nodes[n.pair.value + 1], nodes), n)
    IN  IF ~x.ok THEN [x |-> x, root |-> root]
        ELSE Stepped(ChildrenIter_next(children, it))

\* JSTrieBuilder::from_trie with parent_nibble None: nibbles are set when
\* they are not empty, the raw bytes of a node with an id are read from the
\* host and left unset when the host answers with an error
JSTrieBuilder_from_trie(x, node, nodes) ==
    LET Rooted(xx, raw) ==
          from_trie_children(
            xx,
            [id |-> node.id, nibbles |-> node.nibbles, value |-> node.value,
             raw_bytes |-> raw, children |-> <<>>],
            node.children, ChildrenIter_new(node.children), nodes)
        Fetched(r) ==
          Rooted([x EXCEPT !.w = r.w],
                 IF r.code = 0 THEN [some |-> TRUE, enc |-> r.out] ELSE NoRaw)
    IN  IF node.id.some /\ ~node.raw_bytes.some
        THEN Fetched(HostFnImpl_get_storage(x.w, ValueKey(node.id.hash)))
        ELSE Rooted(x, node.raw_bytes)

JSMerklePatriciaTrie_new(w, node, nodes) == JSTrieBuilder_from_trie(Export(w), node, nodes)

\* MerklePatriciaTrie::nodes: the decode from the root hash and the export
\* of the node at the index the decode returned
MerklePatriciaTrie_nodes(w, root_key) ==
    LET Handed(e, r) ==
          [d |-> IF e.x.ok THEN [r.d EXCEPT !.w = e.x.w]
                 ELSE Aborted([r.d EXCEPT !.w = e.x.w], e.x.abort),
           index |-> r.index, exported |-> e.root]
        Decoded(r) ==
          IF ~r.d.ok THEN [d |-> r.d, index |-> r.index, exported |-> NoBuilder]
          ELSE IF r.index \notin 0 .. Len(r.d.nodes) - 1
               THEN [d |-> Aborted(r.d, "invalid node index"), index |-> r.index,
                     exported |-> NoBuilder]
          ELSE Handed(JSMerklePatriciaTrie_new(r.d.w, r.d.nodes[r.index + 1], r.d.nodes), r)
        Rooted(g) ==
          IF ~g.w.ok
          THEN [d |-> Aborted([Decode(g.w) EXCEPT !.fetched = <<root_key>>], "host"),
                index |-> 0, exported |-> NoBuilder]
          ELSE IF g.ret = None
               THEN [d |-> Aborted([Decode(g.w) EXCEPT !.fetched = <<root_key>>],
                                   "no value for the root key"),
                     index |-> 0, exported |-> NoBuilder]
          ELSE Decoded(decode_recursive([Decode(g.w) EXCEPT !.fetched = <<root_key>>],
                                        g.ret, SomeId(root_key)))
    IN  IF ~w.ok THEN [d |-> Aborted(Decode(w), "host"), index |-> 0,
                       exported |-> NoBuilder]
        ELSE Rooted(ExternalDB_get(w, root_key))

\* __ext_list_nodes: reset the arena, read the root hash, decode and export
list_nodes(st, inner, fail) ==
    LET Read(r) == MerklePatriciaTrie_nodes(r.w, r.ret)
        Started(a) ==
          IF ~a.ok
          THEN [d |-> Aborted(Decode(World(st, fail)), "memory already initialized"),
                index |-> 0, exported |-> NoBuilder]
          ELSE Read(get_root_hash(World(st, fail)))
    IN  Started(BumpAllocator_reset(inner))

----------------------------------------------------------------------------
(* Specification of the node listing: the host fills the store with        *)
(* hand-constructed encodings and names a root, then lists the nodes       *)

DecodeLeaf == Leaf(<<1>>, InlineValue(<<7>>))

DecodeInlineLeaf == Leaf(<<2>>, InlineValue(<<8>>))

\* a branch whose children 0 and 5 reference the same hash
DecodeTwin ==
    NibbledBranch(<<>>, [n \in {0, 5} |-> HashHandle(Blake2(DecodeLeaf))], None)

\* a branch with a hash child and an embedded child
DecodeMixed ==
    NibbledBranch(<<3>>,
                  (1 :> HashHandle(Blake2(DecodeLeaf)) @@ 2 :> InlineHandle(DecodeInlineLeaf)),
                  InlineValue(<<9>>))

\* a branch over the two branches and the leaf they reference
DecodeTop ==
    Branch((0 :> HashHandle(Blake2(DecodeTwin)) @@ 1 :> HashHandle(Blake2(DecodeMixed))
            @@ 4 :> HashHandle(Blake2(DecodeLeaf))),
           None)

DecodeExtension == Extension(<<4>>, HashHandle(Blake2(DecodeLeaf)))

\* a branch with a hash child and an embedded Extension with an embedded child
DecodeOverExtension ==
    NibbledBranch(<<>>,
                  (0 :> HashHandle(Blake2(DecodeLeaf))
                   @@ 2 :> InlineHandle(Extension(<<6>>, InlineHandle(DecodeInlineLeaf)))),
                  None)

\* bytes no node plan can be decoded from
DecodeJunk == Raw(<<9, 9>>)

DecodeOverJunk == Branch((3 :> HashHandle(Blake2(DecodeJunk))), None)

DecodeContents ==
    {DecodeLeaf, DecodeTwin, DecodeMixed, DecodeTop, DecodeExtension,
     DecodeOverExtension, DecodeJunk, DecodeOverJunk}

DecodeRoots == {Blake2(c) : c \in DecodeContents} \cup {HASHED_NULL_NODE}

\* the host writes the store between two invocations; its write is complete
\* at once
HostWrite(key, value) ==
    /\ clean
    /\ INNER = NoArena
    /\ storage' = [k \in (DOMAIN storage) \cup {key} |->
                     IF k = key THEN value ELSE storage[k]]
    /\ committed' = storage'
    /\ lastCall' = NoCall
    /\ UNCHANGED <<INNER, kv, refs, clean, heap, index>>

HostPutNode(c) ==
    /\ ValueKey(Blake2(c)) \notin DOMAIN storage
    /\ HostWrite(ValueKey(Blake2(c)), c)

HostSetRoot(hash) ==
    /\ (EMPTY_PTR \in DOMAIN storage => storage[EMPTY_PTR] # hash)
    /\ HostWrite(EMPTY_PTR, hash)

ListNodes(fail) ==
    LET Returned(r) ==
          /\ FailureHit(r.d.w)
          /\ storage' = r.d.w.st
          /\ INNER' = BumpAllocator_reset(INNER).inner
          /\ lastCall' = [op |-> "list_nodes", arg |-> [inner |-> INNER],
                          ret |-> [nodes |-> r.d.nodes, index |-> r.index,
                                   abort |-> r.d.abort, fetched |-> r.d.fetched,
                                   entered |-> r.d.entered, exported |-> r.exported],
                          ok |-> r.d.ok, fail |-> fail, status |-> r.d.w.status,
                          log |-> r.d.w.log, pre |-> storage]
          /\ committed' = IF r.d.ok THEN r.d.w.st ELSE committed
          /\ clean' = r.d.ok
          /\ UNCHANGED <<kv, refs, heap, index>>
    IN  /\ clean
        /\ Returned(list_nodes(storage, INNER, fail))

NextDecode ==
    \/ Instantiate
    \/ \E c \in DecodeContents : HostPutNode(c)
    \/ \E hash \in DecodeRoots : HostSetRoot(hash)
    \/ \E fail \in 0 .. MaxFail : ListNodes(fail)

SpecDecode == Init /\ [][NextDecode]_vars

\* the last operation was a node listing whose decode asked for the root
DecodeBegan == lastCall.op = "list_nodes" /\ lastCall.ret.fetched # <<>>

\* the encoding a decoded node was decoded from: the stored content of its
\* id, or the embedded bytes it keeps
EncOf(node) ==
    IF ~node.id.some THEN node.raw_bytes.enc
    ELSE IF node.id.hash = HASHED_NULL_NODE THEN NullNodeData
    ELSE lastCall.pre[ValueKey(node.id.hash)]

\* the children of an encoding that are referenced by hash
HashLinks(enc) ==
    IF enc.kind \in {"Branch", "NibbledBranch"}
    THEN {n \in DOMAIN enc.children : enc.children[n].t = "Hash"}
    ELSE {}

NoDuplicates(seq) == \A i, j \in DOMAIN seq : i # j => seq[i] # seq[j]

\* C25: in a decode no hash is fetched twice and no id is parsed twice, no
\* two nodes of the list carry the same id, and every link a decoded parent
\* has to a child referenced by hash holds the index of the node of that id.
C25_DecoderDedup ==
    DecodeBegan =>
      LET nodes == lastCall.ret.nodes
          entered == lastCall.ret.entered
      IN  /\ NoDuplicates(lastCall.ret.fetched)
          /\ \A i, j \in DOMAIN entered :
                (i # j /\ entered[i].id.some /\ entered[j].id.some)
                  => entered[i].id.hash # entered[j].id.hash
          /\ \A i, j \in DOMAIN nodes :
                (i # j /\ nodes[i].id.some /\ nodes[j].id.some)
                  => nodes[i].id.hash # nodes[j].id.hash
          /\ \A p \in DOMAIN nodes : \A n \in HashLinks(EncOf(nodes[p])) :
                /\ Bit(nodes[p].children.mask, n) = 1
                /\ nodes[p].children.children[n] + 1 \in DOMAIN nodes
                /\ nodes[nodes[p].children.children[n] + 1].id
                     = SomeId(EncOf(nodes[p]).children[n].hash)

\* a listing from the branch over two branches: the leaf referenced by four
\* links was fetched once and is one node, at index 0 in every link
C25_Witness ==
    /\ DecodeBegan
    /\ lastCall.ok
    /\ lastCall.ret.fetched[1] = Blake2(DecodeTop)
    /\ Len(lastCall.ret.nodes) = 5
    /\ Len(lastCall.ret.fetched) = 4
    /\ lastCall.ret.nodes[1].id = SomeId(Blake2(DecodeLeaf))
    /\ lastCall.ret.nodes[2].children.children[0] = 0
    /\ lastCall.ret.nodes[2].children.children[5] = 0
    /\ lastCall.ret.nodes[4].children.children[1] = 0
    /\ lastCall.ret.nodes[5].children.children[4] = 0

\* the decode of the last listing parsed an Extension node
MetExtension ==
    /\ DecodeBegan
    /\ \E i \in DOMAIN lastCall.ret.entered : lastCall.ret.entered[i].kind = "Extension"

\* C26 as stated: a decode that parsed an Extension node decoded its child
\* and linked it: the listing returns, and the node decoded from the
\* Extension holds a child.
C26_ExtensionChildLinked ==
    MetExtension =>
      /\ lastCall.ok
      /\ \E i \in DOMAIN lastCall.ret.nodes :
            /\ EncOf(lastCall.ret.nodes[i]).kind = "Extension"
            /\ lastCall.ret.nodes[i].children.mask # 0

\* C26: a decode that parsed an Extension node aborts there: the Extension
\* is the last encoding parsed, no hash is fetched after it, and no node is
\* listed for it.
C26_ExtensionAborts ==
    MetExtension =>
      LET entered == lastCall.ret.entered
          last == entered[Len(entered)]
      IN  /\ ~lastCall.ok
          /\ ~clean
          /\ lastCall.ret.abort = "extension node not supported"
          /\ last.kind = "Extension"
          /\ Len(lastCall.ret.fetched) = last.fetches
          /\ \A i \in DOMAIN lastCall.ret.nodes :
                EncOf(lastCall.ret.nodes[i]).kind # "Extension"

\* a listing that aborted on an Extension embedded in the root branch, after
\* the branch's hash child was fetched and listed
C26_Witness ==
    /\ MetExtension
    /\ ~lastCall.ok
    /\ lastCall.ret.fetched = <<Blake2(DecodeOverExtension), Blake2(DecodeLeaf)>>
    /\ Len(lastCall.ret.nodes) = 1
    /\ ~lastCall.ret.entered[Len(lastCall.ret.entered)].id.some

\* what a decode ends with: a list whose last node is the root's, or an abort
\* for one of the causes; no hash is fetched twice and none parsed twice
DecodeEnds(causes) ==
    DecodeBegan =>
      LET ret == lastCall.ret
          last == ret.fetched[Len(ret.fetched)]
          Stored(hash) ==
            hash = HASHED_NULL_NODE \/ ValueKey(hash) \in DOMAIN lastCall.pre
      IN  /\ lastCall.ok =>
                /\ ret.nodes # <<>>
                /\ ret.index = Len(ret.nodes) - 1
                /\ ret.nodes[ret.index + 1].id = SomeId(ret.fetched[1])
                /\ \A i \in DOMAIN ret.fetched : Stored(ret.fetched[i])
          /\ ~lastCall.ok =>
                /\ ~clean
                /\ ret.abort \in causes
                /\ ret.abort = "decode_plan failed" =>
                      (Stored(last) /\ ~decode_plan(lastCall.pre[ValueKey(last)]))
                /\ ret.abort = "invalid children" => (~Stored(last) /\ Len(ret.fetched) > 1)
                /\ ret.abort = "no value for the root key" =>
                      (~Stored(last) /\ Len(ret.fetched) = 1)
                /\ ret.abort = "extension node not supported" =>
                      ret.entered[Len(ret.entered)].kind = "Extension"
                /\ ret.abort = "host" =>
                      (lastCall.fail = Len(lastCall.log) /\ lastCall.fail > 0)
          /\ NoDuplicates(ret.fetched)
          /\ Len(ret.fetched) <= Cardinality(DOMAIN lastCall.pre) + 1
          /\ \A i, j \in DOMAIN ret.entered :
                (i # j /\ ret.entered[i].id.some /\ ret.entered[j].id.some)
                  => ret.entered[i].id.hash # ret.entered[j].id.hash

----------------------------------------------------------------------------
(* xxhash32 (hash.rs).  A u32 is kept as its two 16-bit halves, so that no *)
(* step of the arithmetic modulo 2^32 leaves the integers of the checker.  *)

Word(hi, lo) == [hi |-> hi, lo |-> lo]

PRIME32_1 == Word(40503, 31153)
PRIME32_2 == Word(34283, 51831)
PRIME32_3 == Word(49842, 44605)
PRIME32_4 == Word(10196, 60207)
PRIME32_5 == Word(5718, 26545)

BYTES_IN_LANE == 16

\* the sum of two u32 before it is reduced: carry is 1 when it passes 2^32
WideAdd(a, b) ==
    [carry |-> (a.hi + b.hi + ((a.lo + b.lo) \div U16)) \div U16,
     word |-> Word((a.hi + b.hi + ((a.lo + b.lo) \div U16)) % U16, (a.lo + b.lo) % U16)]

wrapping_add(a, b) == WideAdd(a, b).word

\* a - b modulo 2^32
wrapping_sub(a, b) ==
    wrapping_add(a, wrapping_add(Word(BitNot(b.hi), BitNot(b.lo)), Word(0, 1)))

\* the low 16 bits of the product of two 16-bit numbers
Mul16(x, y) == ((x % 256) * y + (((x \div 256) * y) % 256) * 256) % U16

\* a * b modulo 2^32
wrapping_mul(a, b) ==
    LET t0 == (a.lo % 256) * b.lo
        t1 == (a.lo \div 256) * b.lo
        lo == (t0 % U16) + (t1 % 256) * 256
    IN  Word(((t0 \div U16) + (t1 \div 256) + (lo \div U16)
              + Mul16(a.hi, b.lo) + Mul16(a.lo, b.hi)) % U16,
             lo % U16)

\* u32::rotate_left
rotate_left(a, n) ==
    LET Turn(hi, lo, k) ==
          IF k = 0 THEN Word(hi, lo)
          ELSE Word(((hi * (2 ^ k)) % U16) + (lo \div (2 ^ (16 - k))),
                    ((lo * (2 ^ k)) % U16) + (hi \div (2 ^ (16 - k))))
    IN  IF n < 16 THEN Turn(a.hi, a.lo, n) ELSE Turn(a.lo, a.hi, n - 16)

\* a >> n for 0 < n <= 16
shr(a, n) ==
    Word(a.hi \div (2 ^ n), (a.lo \div (2 ^ n)) + (a.hi % (2 ^ n)) * (2 ^ (16 - n)))

\* a ^ b
xor(a, b) == Word(BitXor(a.hi, b.hi), BitXor(a.lo, b.lo))

\* the u32 of four bytes, least significant first
from_le_bytes(b) == Word(b[3] + 256 * b[4], b[1] + 256 * b[2])

round(acc, lane) ==
    wrapping_mul(rotate_left(wrapping_add(acc, wrapping_mul(lane, PRIME32_2)), 13),
                 PRIME32_1)

\* the loop over the 16-byte chunks: the accumulators and the bytes left
RECURSIVE stripes(_, _)
stripes(acc, data) ==
    IF Len(data) < BYTES_IN_LANE THEN [acc |-> acc, data |-> data]
    ELSE stripes([i \in 1 .. 4 |->
                    round(acc[i], from_le_bytes(SubSeq(data, 4 * i - 3, 4 * i)))],
                 SubSeq(data, BYTES_IN_LANE + 1, Len(data)))

\* the loop over the 4-byte chunks
RECURSIVE lanes(_, _)
lanes(acc, data) ==
    IF Len(data) < 4 THEN [acc |-> acc, data |-> data]
    ELSE lanes(wrapping_mul(
                   rotate_left(wrapping_add(acc, wrapping_mul(from_le_bytes(SubSeq(data, 1, 4)),
                                                              PRIME32_3)), 17),
                   PRIME32_4),
               SubSeq(data, 5, Len(data)))

\* the loop over the bytes left
RECURSIVE tail(_, _)
tail(acc, data) ==
    IF data = <<>> THEN acc
    ELSE tail(wrapping_mul(
                  rotate_left(wrapping_add(acc, wrapping_mul(Word(0, Head(data)), PRIME32_5)),
                              11),
                  PRIME32_1),
              Tail(data))

\* the final mix
avalanche(acc) ==
    LET Third(c) == xor(c, shr(c, 16))
        Second(b) == Third(wrapping_mul(xor(b, shr(b, 13)), PRIME32_3))
    IN  Second(wrapping_mul(xor(acc, shr(acc, 15)), PRIME32_2))

\* the accumulator before the length is added
merged(seed, len, acc) ==
    IF len < BYTES_IN_LANE THEN wrapping_add(seed, PRIME32_5)
    ELSE wrapping_add(wrapping_add(wrapping_add(rotate_left(acc[1], 1),
                                                rotate_left(acc[2], 7)),
                                   rotate_left(acc[3], 12)),
                      rotate_left(acc[4], 18))

\* xxhash32(seed, data).  acc += len is a plain addition: a build with
\* overflow checks (checked) panics when it passes 2^32, a build without
\* them wraps; ok is FALSE when the call panics
xxhash32(seed, data, checked) ==
    LET Finished(r) == avalanche(tail(r.acc, r.data))
        Counted(s, sum) ==
          IF checked /\ sum.carry # 0 THEN [ok |-> FALSE, ret |-> Word(0, 0)]
          ELSE [ok |-> TRUE, ret |-> Finished(lanes(sum.word, s.data))]
        Striped(s) ==
          Counted(s, WideAdd(merged(seed, Len(data), s.acc), Word(0, Len(data))))
    IN  Striped(stripes(<<wrapping_add(wrapping_add(seed, PRIME32_1), PRIME32_2),
                          wrapping_add(seed, PRIME32_2),
                          seed,
                          wrapping_sub(seed, PRIME32_1)>>,
                        data))

----------------------------------------------------------------------------
(* Specification of the hash: the sanity buffer of the test is hashed at   *)
(* every length up to MaxHashLen under the seeds of the test and under     *)
(* seeds close to 2^32, by a build with and by one without overflow checks *)

\* the longest prefix of the sanity buffer that is hashed
MaxHashLen == 20

\* the first bytes byte_gen writes
SanityBuffer ==
    <<0, 82, 146, 155, 183, 50, 163, 36, 45, 0, 175, 149, 14, 236, 184, 147,
      227, 223, 239, 147, 170, 214, 205, 42>>

\* 0 and PRIME32_1 as in the test, the largest seed, and the seed that
\* PRIME32_5 takes to 2^32 - 1
HashSeeds == {Word(0, 0), PRIME32_1, Word(65535, 65535), Word(59817, 38990)}

XxHash(seed, len, checked) ==
    LET Done(r) ==
          /\ lastCall' = [op |-> "xxhash32",
                          arg |-> [seed |-> seed, len |-> len, checked |-> checked],
                          ret |-> r.ret, ok |-> r.ok, fail |-> 0, status |-> 0,
                          log |-> <<>>, pre |-> storage]
          /\ UNCHANGED <<storage, INNER, kv, committed, refs, clean, heap, index>>
    IN  /\ len <= Len(SanityBuffer)
        /\ Done(xxhash32(seed, SubSeq(SanityBuffer, 1, len), checked))

NextHash ==
    \E seed \in HashSeeds, len \in 0 .. MaxHashLen, checked \in BOOLEAN :
       XxHash(seed, len, checked)

SpecHash == Init /\ [][NextHash]_vars

\* the hashes the test expects of the prefixes of length 0 to 11, and the
\* XXH32 of three longer prefixes, under seed 0
ExpectedSeed0 ==
    (0 :> Word(716, 23813) @@ 1 :> Word(53093, 45118) @@ 2 :> Word(4433, 48868)
     @@ 3 :> Word(49720, 34037) @@ 4 :> Word(43486, 31977) @@ 5 :> Word(60183, 13499)
     @@ 6 :> Word(26015, 3223) @@ 7 :> Word(24080, 22221) @@ 8 :> Word(41974, 62539)
     @@ 9 :> Word(65464, 10788) @@ 10 :> Word(45541, 814) @@ 11 :> Word(3314, 61490)
     @@ 16 :> Word(37818, 14169) @@ 17 :> Word(35325, 49726) @@ 20 :> Word(14391, 18997))

\* the same under seed PRIME32_1
ExpectedSeedPrime ==
    (0 :> Word(14007, 35559) @@ 1 :> Word(46164, 23204) @@ 2 :> Word(7899, 34714)
     @@ 3 :> Word(6694, 39239) @@ 4 :> Word(11178, 65155) @@ 5 :> Word(22644, 55984)
     @@ 6 :> Word(3023, 9669) @@ 7 :> Word(16089, 54268) @@ 8 :> Word(49832, 57913)
     @@ 9 :> Word(54102, 12998) @@ 10 :> Word(6247, 40288) @@ 11 :> Word(57577, 38968)
     @@ 16 :> Word(43343, 49633) @@ 17 :> Word(51601, 1849) @@ 20 :> Word(50833, 42330))

\* the call returned the expected hash, when it is one of a prefix and a
\* seed that has an expected hash
ReturnsExpected ==
    /\ (lastCall.arg.seed = Word(0, 0) /\ lastCall.arg.len \in DOMAIN ExpectedSeed0)
         => lastCall.ret = ExpectedSeed0[lastCall.arg.len]
    /\ (lastCall.arg.seed = PRIME32_1 /\ lastCall.arg.len \in DOMAIN ExpectedSeedPrime)
         => lastCall.ret = ExpectedSeedPrime[lastCall.arg.len]

\* C31: xxhash32 returns for every seed and every length, no addition
\* overflowing outside wrapping arithmetic, and it returns the XXH32 of the
\* data: the value the test expects for the seeds and lengths of the test.
C31_MatchesReference ==
    lastCall.op = "xxhash32" => (lastCall.ok /\ ReturnsExpected)

----------------------------------------------------------------------------
(* Value entries and counter entries *)

\* contains and get as they answer on the store st when no host call fails
ContainsIn(st, h) == ExternalDB_contains(World(st, 0), h)
GetIn(st, h) == ExternalDB_get(World(st, 0), h)

\* for every hash other than the empty-trie hash a value entry exists
\* exactly when a counter entry with a count of at least 1 exists, and no
\* hash key or counter key is the root slot or a key of the other key space
EntriesPaired(hashes) ==
    /\ \A h \in hashes \ {HASHED_NULL_NODE} :
          ValueKey(h) \in DOMAIN storage
            <=> (CounterKey(h) \in DOMAIN storage /\ CountIn(storage, h) >= 1)
    /\ \A h, g \in hashes :
          /\ ValueKey(h) # EMPTY_PTR /\ CounterKey(h) # EMPTY_PTR
          /\ ValueKey(h) # CounterKey(g)

\* no value longer than MAX_VALUE_SIZE is stored under the hash
WithinMaximum(h) ==
    ValueKey(h) \in DOMAIN storage => Len(storage[ValueKey(h)].bytes) <= MAX_VALUE_SIZE

\* C32: in every state reached by store operations that completed,
\* contains(h) is true exactly when get(h) returns a value: for every hash
\* other than the empty-trie hash a value entry exists under the hash key
\* exactly when a counter entry with a count of at least 1 exists under the
\* counter key, and neither key space collides with the root slot (checked
\* for the hashes whose value is not longer than the maximum value size).
C32_ContainsIffGet ==
    clean =>
        /\ EntriesPaired(StoreHashes \cup SizedHashes)
        /\ \A h \in StoreHashes \cup SizedHashes :
              WithinMaximum(h) =>
                 /\ ContainsIn(storage, h).w.ok
                 /\ ContainsIn(storage, h).ret
                      = (GetIn(storage, h).w.ok /\ GetIn(storage, h).ret # None)

\* the part of C32 about the entries alone
C32_EntriesPaired == clean => EntriesPaired(StoreHashes \cup SizedHashes)

----------------------------------------------------------------------------
(* Garbage collection *)

\* the value entries and the counter entries of a host store
Entries(st) == [k \in DOMAIN st \ {EMPTY_PTR} |-> st[k]]

\* the last call was a completed insert of a key that was absent from the
\* trie the call began on
InsertedAbsent ==
    /\ CompletedCall(0)
    /\ ~MerklePatriciaTrie_exists(World(lastCall.pre, 0), RootOf(lastCall.pre),
                                  lastCall.arg.key).ret

\* the remove call of the inserted key on the next instance
RemoveInserted == call(storage, NoArena, 1, lastCall.arg.key, 0)

\* C33: a completed insert(k, v) of a key k absent from the trie followed by
\* a completed remove(k) restores the host store to its contents before the
\* insert: the same root hash, the same value entries and the same counter
\* entries; when every key of a trie built from an empty store has been
\* removed, only the root slot remains.
C33_InsertRemoveRestores ==
    /\ InsertedAbsent =>
          LET Restored(r) ==
                /\ r.w.ok
                /\ RootOf(r.w.st) = RootOf(lastCall.pre)
                /\ Entries(r.w.st) = Entries(lastCall.pre)
          IN  Restored(RemoveInserted)
    /\ (clean /\ \A k \in Keys : kv[k] = None) => DOMAIN storage \subseteq {EMPTY_PTR}

\* an insert of an absent key into a trie that holds two other keys, which
\* rewrote the root node and left a node counted twice
C33_Witness ==
    /\ InsertedAbsent
    /\ Cardinality({k \in Keys : kv[k] # None}) = 3
    /\ RootOf(storage) # RootOf(lastCall.pre)
    /\ \E h \in Reachable(storage) : CountIn(storage, h) = 2
    /\ RemoveInserted.w.st # storage

----------------------------------------------------------------------------
(* Read-only dispatch calls *)

\* host calls of the last operation that write or clear an entry
StoreWrites ==
    {i \in 1 .. Len(lastCall.log) : lastCall.log[i].op \in {"set_storage", "clear_storage"}}

\* C34: a dispatch call of code 2 (exists), 3 (get) or 4 (root) that finds
\* the root slot populated issues no set_storage and no clear_storage,
\* whatever the key and whether or not the call completes: the host store
\* after the call is the host store before it.
C34_ReadOnlyCalls ==
    (lastCall.op = "call" /\ lastCall.arg.code \in {2, 3, 4}
       /\ EMPTY_PTR \in DOMAIN lastCall.pre) =>
      /\ StoreWrites = {}
      /\ storage = lastCall.pre

\* a completed exists that found its key in a trie of three keys, reading
\* more than the root slot
C34_Witness ==
    /\ CompletedCall(2)
    /\ EMPTY_PTR \in DOMAIN lastCall.pre
    /\ lastCall.ret = [u64 |-> 1]
    /\ Cardinality({k \in Keys : kv[k] # None}) = 3
    /\ Len(lastCall.log) >= 2
    /\ storage = lastCall.pre

----------------------------------------------------------------------------
(* Child references of the decoded list *)

\* the child references the Branch Index of a node holds
ChildRefs(node) ==
    {node.children.children[n] : n \in {m \in 0 .. 15 : Bit(node.children.mask, m) = 1}}

\* the number of builders of an exported tree
RECURSIVE Builders(_)
RECURSIVE BuildersOf(_, _)
BuildersOf(children, i) ==
    IF i > Len(children) THEN 0
    ELSE Builders(children[i].child) + BuildersOf(children, i + 1)
Builders(root) == 1 + BuildersOf(root.children, 1)

\* C35: in the list the decoder produced, also when the decode did not
\* complete, every child reference of a node is an index of the list
\* strictly smaller than the index of the node; a completed decode returns
\* the index of the last element, which is the node of the root hash; the
\* export never ends on a child that is not found or on an invalid index
\* and, when the listing completes, has built a finite tree whose root has
\* one child for every reference of the root node.
C35_ChildrenBeforeParents ==
    lastCall.op = "list_nodes" =>
      LET nodes == lastCall.ret.nodes
      IN  /\ \A i \in DOMAIN nodes : \A c \in ChildRefs(nodes[i]) : 0 <= c /\ c < i - 1
          /\ lastCall.ret.abort \notin
               {"child at index not found", "invalid node index", "empty slot"}
          /\ lastCall.ok =>
                /\ nodes # <<>>
                /\ lastCall.ret.index = Len(nodes) - 1
                /\ nodes[Len(nodes)].id = SomeId(RootOf(lastCall.pre))
                /\ Len(lastCall.ret.exported.children)
                     = Cardinality({m \in 0 .. 15 : Bit(nodes[Len(nodes)].children.mask, m) = 1})
                /\ Builders(lastCall.ret.exported) >= Len(nodes)

\* a completed listing of five nodes in which the leaf at index 0 is the
\* child of three nodes and is exported once for each reference
C35_Witness ==
    /\ lastCall.op = "list_nodes"
    /\ lastCall.ok
    /\ Len(lastCall.ret.nodes) = 5
    /\ lastCall.ret.index = 4
    /\ Cardinality({i \in DOMAIN lastCall.ret.nodes : 0 \in ChildRefs(lastCall.ret.nodes[i])}) = 3
    /\ Builders(lastCall.ret.exported) > 5

====
